---- MODULE Spec2Model ----
(***************************************************************************)
(* check-pages: the verification pipeline of checkPages.js (the worklist   *)
(* pendingCallbacks, testPage, testLink, addLinks, the 'done' callback and *)
(* next) together with the file: request implementation requestFile.js.    *)
(*                                                                         *)
(* A JavaScript turn (one event handler and everything it calls            *)
(* synchronously, the chain callback() -> next() -> testLink(...) -> ...   *)
(* included) is one action.  The handlers are operators over a record `s`  *)
(* holding the closure variables of module.exports; an action applies its  *)
(* handler to the current state and commits the record it returns.         *)
(***************************************************************************)
EXTENDS Integers, Sequences, FiniteSets, TLC

VARIABLES
  web,               \* what the pages of the run may hold: elements, how many,
                     \* whether a fetch may be redirected to another host, and
                     \* whether the events of the requests take time
  options,           \* the normalized options object
  args,              \* the values the caller passes for host, done and options
  raised,            \* the message of the Error module.exports threw, or ""
  now,               \* what Date.now() gives, in ms since the call
  phase,             \* "init" | "failed" | "running" | "done" | "crashed"
  pendingCallbacks,  \* the worklist
  issues,            \* [page, message] pairs
  testedLinks,       \* fragment-stripped links already claimed
  inflight,          \* the requests in flight, oldest first
  log,               \* lines given to host.log
  errors,            \* lines given to host.error
  thrown,            \* number of exceptions that escaped a handler
  doneCalls,         \* the (err, issueCount) pairs given to done
  checks,            \* history: every testPage/testLink callback created
  cbCalls,           \* history: per check, how often its callback argument ran
  taken,             \* history: ids of the checks shifted off the worklist
  requests,          \* history: every request dispatched
  outcomes,          \* history: how each request ended
  loggedBy,          \* history: per line of log, the check that wrote it
  issuedBy,          \* history: per issue, the check that recorded it
  grunt              \* the Grunt process that loaded tasks/checkPages.js: the
                     \* module-level variables of the task and what its runs did

\* the variables of an invocation of the checker
checker == <<web, options, args, raised, now, phase, pendingCallbacks, issues,
             testedLinks, inflight, log, errors, thrown, doneCalls, checks, cbCalls,
             taken, requests, outcomes, loggedBy, issuedBy>>

vars == <<checker, grunt>>

-----------------------------------------------------------------------------
(* Bounds of the model *)

MaxPages == 2   \* longest options.pageUrls
MaxLinks == 2   \* most elements carrying a link in the bodies of one run
MaxCheckedPages == 1   \* longest options.pageUrls of a run with page checks
MaxCheckedLinks == 1   \* most link elements in a run with page checks
MaxSummaryPages == 3   \* longest options.pageUrls of a run with a summary
MaxTargets == 2        \* most targets of the checkPages task in a Grunt process

-----------------------------------------------------------------------------
(* URLs: the strings the program handles and what url.parse makes of them *)

NoQuery == [sha1 |-> "", md5 |-> "", crc32 |-> ""]

Url(protocol, host, pathname, query, hash) ==
  [protocol |-> protocol, host |-> host, pathname |-> pathname,
   query |-> query, hash |-> hash]

\* the URL strings of the model
UrlStrings ==
  {"http://example.com/p1", "http://example.com/p1#",
   "http://example.com/r", "http://example.com/r#",
   "p2", "file:p2", "file:p2#", "file:f", "#",
   "http://localhost/l?sha1=AB",
   "http://example.com/z?sha1=AB", "mailto:x", "http://other.com/o",
   "http://other.com/o#",
   "http://localhost/l", "http://127.0.0.1/l", "http://[::1]/l",
   "http://localhost.example.com/l", "http://127.0.0.1.example.com/l",
   "http://[::1]:8080/l",
   "http://example.com/z?sha1=AB&sha1=CD",
   "#f", "http://example.com/p1#f", "http://example.com/r#f", "file:p2#f"}

\* url.parse (with the query parsed) on the strings of the model; an empty
\* string stands for a part that url.parse reports as null
urlParse(str) ==
  CASE str = "http://example.com/p1"  -> Url("http:", "example.com", "/p1", NoQuery, "")
    [] str = "http://example.com/p1#" -> Url("http:", "example.com", "/p1", NoQuery, "#")
    [] str = "http://example.com/r"   -> Url("http:", "example.com", "/r", NoQuery, "")
    [] str = "http://example.com/r#"  -> Url("http:", "example.com", "/r", NoQuery, "#")
    [] str = "p2"                     -> Url("", "", "p2", NoQuery, "")
    [] str = "file:p2"                -> Url("file:", "", "p2", NoQuery, "")
    [] str = "file:p2#"               -> Url("file:", "", "p2", NoQuery, "#")
    [] str = "file:f"                 -> Url("file:", "", "f", NoQuery, "")
    [] str = "#"                      -> Url("", "", "", NoQuery, "#")
    [] str = "http://localhost/l?sha1=AB" ->
         Url("http:", "localhost", "/l", [NoQuery EXCEPT !.sha1 = "AB"], "")
    [] str = "mailto:x" -> Url("mailto:", "x", "", NoQuery, "")
    [] str = "http://localhost/l" -> Url("http:", "localhost", "/l", NoQuery, "")
    [] str = "http://127.0.0.1/l" -> Url("http:", "127.0.0.1", "/l", NoQuery, "")
    [] str = "http://[::1]/l" -> Url("http:", "[::1]", "/l", NoQuery, "")
    [] str = "http://localhost.example.com/l" -> Url("http:", "localhost.example.com", "/l", NoQuery, "")
    [] str = "http://127.0.0.1.example.com/l" -> Url("http:", "127.0.0.1.example.com", "/l", NoQuery, "")
    [] str = "http://[::1]:8080/l" -> Url("http:", "[::1]:8080", "/l", NoQuery, "")
    [] str = "http://other.com/o" -> Url("http:", "other.com", "/o", NoQuery, "")
    [] str = "http://other.com/o#" -> Url("http:", "other.com", "/o", NoQuery, "#")
    [] str = "http://example.com/z?sha1=AB" ->
         Url("http:", "example.com", "/z", [NoQuery EXCEPT !.sha1 = "AB"], "")
    [] str = "http://example.com/z?sha1=AB&sha1=CD" ->
         Url("http:", "example.com", "/z", [NoQuery EXCEPT !.sha1 = "AB,CD"], "")
    [] str = "#f"                     -> Url("", "", "", NoQuery, "#f")
    [] str = "http://example.com/p1#f" -> Url("http:", "example.com", "/p1", NoQuery, "#f")
    [] str = "http://example.com/r#f" -> Url("http:", "example.com", "/r", NoQuery, "#f")
    [] str = "file:p2#f"              -> Url("file:", "", "p2", NoQuery, "#f")
    [] OTHER -> Url("", "", "", NoQuery, "")

\* url.format: the string of a parsed URL
urlFormat(parsed) == CHOOSE str \in UrlStrings : urlParse(str) = parsed

PageHttp == "http://example.com/p1"

\* where a redirected fetch of an http page ends (res.request.href)
RedirectTarget(page) == urlFormat([urlParse(page) EXCEPT !.pathname = "/r"])

\* the elements a page body may hold, in document order
ElementUniverse ==
  { [tag |-> "a",      attr |-> "href", value |-> "#"],
    [tag |-> "a",      attr |-> "href", value |-> "file:f"],
    [tag |-> "img",    attr |-> "src",  value |-> "http://example.com/p1"],
    [tag |-> "script", attr |-> "src",  value |-> "http://localhost/l?sha1=AB"] }

\* elements whose links differ in scheme and host
FilterElements ==
  { [tag |-> "a",      attr |-> "href", value |-> "#"],
    [tag |-> "a",      attr |-> "href", value |-> "mailto:x"],
    [tag |-> "img",    attr |-> "src",  value |-> "http://example.com/p1"],
    [tag |-> "script", attr |-> "src",  value |-> "http://other.com/o"] }

\* a relative link and links to the hosts a redirected page is fetched from
RedirectElements ==
  { [tag |-> "a",   attr |-> "href", value |-> "#"],
    [tag |-> "a",   attr |-> "href", value |-> "http://other.com/o"],
    [tag |-> "img", attr |-> "src",  value |-> "http://example.com/p1"] }

\* elements whose links differ in their host
LocalElements ==
  { [tag |-> "a", attr |-> "href", value |-> "#"],
    [tag |-> "a", attr |-> "href", value |-> "http://example.com/p1"],
    [tag |-> "a", attr |-> "href", value |-> "http://localhost/l"],
    [tag |-> "a", attr |-> "href", value |-> "http://127.0.0.1/l"],
    [tag |-> "a", attr |-> "href", value |-> "http://[::1]/l"],
    [tag |-> "a", attr |-> "href", value |-> "http://localhost.example.com/l"],
    [tag |-> "a", attr |-> "href", value |-> "http://127.0.0.1.example.com/l"],
    [tag |-> "a", attr |-> "href", value |-> "http://[::1]:8080/l"] }

\* elements that differ in the attribute that carries their link
PairElements ==
  { [tag |-> "video",  attr |-> "src",    value |-> "#"],
    [tag |-> "video",  attr |-> "poster", value |-> "http://example.com/p1"],
    [tag |-> "img",    attr |-> "srcset", value |-> "http://example.com/p1"],
    [tag |-> "source", attr |-> "srcset", value |-> "#"] }

\* elements whose links differ in the hash their query names
HashElements ==
  { [tag |-> "a",      attr |-> "href", value |-> "#"],
    [tag |-> "a",      attr |-> "href", value |-> "http://example.com/z?sha1=AB"],
    [tag |-> "script", attr |-> "src",  value |-> "http://example.com/z?sha1=AB&sha1=CD"] }

\* elements whose links differ in their fragment only
FragmentElements ==
  { [tag |-> "a",   attr |-> "href", value |-> "#"],
    [tag |-> "a",   attr |-> "href", value |-> "#f"],
    [tag |-> "img", attr |-> "src",  value |-> "http://example.com/p1"] }

RECURSIVE SeqsUpTo(_, _)
SeqsUpTo(S, n) ==
  IF n = 0 THEN {<<>>}
  ELSE LET shorter == SeqsUpTo(S, n - 1)
       IN  shorter \cup {Append(q, x) : q \in {t \in shorter : Len(t) = n - 1}, x \in S}

\* a search that never finds
ContainsNever(seq, x) == FALSE

\* seq.indexOf(x) !== -1
Contains(seq, x) == \E i \in 1..Len(seq) : seq[i] = x

-----------------------------------------------------------------------------
(* The closure state of one invocation of module.exports *)

NoUrl == ""
NoHeaders == [location |-> "", cacheControl |-> "", etag |-> "", contentEncoding |-> ""]
NoRes == [statusCode |-> 0, href |-> NoUrl, headers |-> NoHeaders]
NoReq == [type |-> "none", id |-> 0, page |-> NoUrl, link |-> NoUrl, via |-> "",
          method |-> "", useGetRequest |-> FALSE, linkHash |-> "", res |-> NoRes,
          start |-> 0]

St == [phase |-> phase, pendingCallbacks |-> pendingCallbacks, issues |-> issues,
       testedLinks |-> testedLinks, inflight |-> inflight, log |-> log,
       errors |-> errors,
       thrown |-> thrown, doneCalls |-> doneCalls, checks |-> checks,
       cbCalls |-> cbCalls, taken |-> taken, requests |-> requests,
       outcomes |-> outcomes, loggedBy |-> loggedBy, issuedBy |-> issuedBy,
       now |-> now,
       self |-> 0,          \* the check whose closure is running
       nextDue |-> FALSE]   \* callback() was called: next() is to run

Commit(s) ==
  /\ grunt' = grunt
  /\ now' = s.now
  /\ phase' = s.phase
  /\ pendingCallbacks' = s.pendingCallbacks
  /\ issues' = s.issues
  /\ testedLinks' = s.testedLinks
  /\ inflight' = s.inflight
  /\ log' = s.log
  /\ errors' = s.errors
  /\ thrown' = s.thrown
  /\ doneCalls' = s.doneCalls
  /\ checks' = s.checks
  /\ cbCalls' = s.cbCalls
  /\ taken' = s.taken
  /\ requests' = s.requests
  /\ outcomes' = s.outcomes
  /\ loggedBy' = s.loggedBy
  /\ issuedBy' = s.issuedBy

\* a request is sent: its emitter joins the requests in flight
send(s, r) ==
  [s EXCEPT !.inflight = Append(@, r),
            !.requests = Append(@, [id |-> r.id, type |-> r.type, url |-> r.link,
                                    method |-> r.method, via |-> r.via,
                                    at |-> s.now])]

\* a request emits nothing any more: it ended, failed or was aborted
RECURSIVE without(_, _)
without(seq, r) ==
  IF seq = <<>> THEN <<>>
  ELSE IF Head(seq) = r THEN Tail(seq)
  ELSE <<Head(seq)>> \o without(Tail(seq), r)

close(s, r) == [s EXCEPT !.inflight = without(@, r)]

\* a handler of request r starts to run; event is what the request emitted
enter(s, r, event, statusCode) ==
  [s EXCEPT !.self = r.id,
            !.outcomes = IF event = "response" THEN @
                         ELSE Append(@, [id |-> r.id, method |-> r.method,
                                         event |-> event, statusCode |-> statusCode,
                                         location |-> IF r.res = NoRes THEN ""
                                                      ELSE r.res.headers.location,
                                         digest |-> "", href |-> NoUrl,
                                         body |-> <<>>, elapsed |-> 0,
                                         headers |-> NoHeaders, at |-> s.now])]

\* the res.request.href, the headers and the elements of the body the
\* callback of a page request was given, and the time the request took
received(s, res, body, elapsed) ==
  [s EXCEPT !.outcomes[Len(s.outcomes)].href = res.href,
            !.outcomes[Len(s.outcomes)].body = body.elements,
            !.outcomes[Len(s.outcomes)].elapsed = elapsed,
            !.outcomes[Len(s.outcomes)].headers = res.headers]

\* the digest hash.read() gives at the event the handler has entered for
hashed(s, contentHash) == [s EXCEPT !.outcomes[Len(s.outcomes)].digest = contentHash]

\* a log or error line: its leading text, the URL it names, and its details
Msg(kind, url, statusCode, detail) ==
  [kind |-> kind, url |-> url, to |-> NoUrl, statusCode |-> statusCode,
   detail |-> detail, ms |-> 0]

\* the line with ' (' + (Date.now() - start) + 'ms)' at its end, start being
\* the variable of the closure that sent request r
took(s, r, message) == [message EXCEPT !.ms = s.now - r.start]

hostLog(s, message) ==
  [s EXCEPT !.log = Append(@, message), !.loggedBy = Append(@, s.self)]
hostError(s, message) == [s EXCEPT !.errors = Append(@, message)]

\* an error line that is not recorded as an Issue
logPageErrorUnrecorded(s, page, message) == hostError(s, message)

\* a logPageError that puts the Issue in front of the list (unshift)
logPageErrorInFront(s, page, message) ==
  [hostError(s, message) EXCEPT !.issues = <<(<<page, message>>)>> \o @,
                                !.issuedBy = <<s.self>> \o @]

\* logPageError(page, message): host.error and issues.push
logPageError(s, page, message) ==
  [hostError(s, message) EXCEPT !.issues = Append(@, <<page, message>>),
                                !.issuedBy = Append(@, s.self)]

\* an exception leaves the running handler: nothing after the throw executes
Throw(s) == [s EXCEPT !.thrown = @ + 1, !.nextDue = FALSE]

\* a list of links to ignore that ignores nothing
isLinkIgnoredNever(link) == FALSE

\* options.linksToIgnore.some(linkToIgnore === link)
isLinkIgnored(link) == Contains(options.linksToIgnore, link)

\* requestFor: file: URIs go to requestFile, everything else to request
requestFor(uri) ==
  IF urlParse(uri).protocol = "file:" THEN "requestFile" ELSE "request"

\* url.format of a parsed link whose hash was left in place
withHashLinkOf(parsedLink) == urlFormat(parsedLink)

\* url.format of a parsed link whose hash was set to null
noHashLinkOf(parsedLink) == urlFormat([parsedLink EXCEPT !.hash = ""])

\* String.prototype.toUpperCase / toLowerCase on the digests of the model
toUpperCase(str) ==
  CASE str = "ab" -> "AB"
    [] str = "cd" -> "CD"
    [] OTHER -> str

toLowerCase(str) ==
  CASE str = "AB" -> "ab"
    [] str = "CD" -> "cd"
    [] OTHER -> str

\* a key that is repeated in a query string parses to the array of its
\* values, written here as the values joined by a comma
isArray(value) == value = "AB,CD"

\* the characters of the hosts of the model
chars(host) ==
  CASE host = "localhost" -> <<"l", "o", "c", "a", "l", "h", "o", "s", "t">>
    [] host = "127.0.0.1" -> <<"1", "2", "7", ".", "0", ".", "0", ".", "1">>
    [] host = "[::1]" -> <<"[", ":", ":", "1", "]">>
    [] host = "localhost.example.com" -> <<"l", "o", "c", "a", "l", "h", "o", "s", "t", ".", "e", "x", "a", "m", "p", "l", "e", ".", "c", "o", "m">>
    [] host = "127.0.0.1.example.com" -> <<"1", "2", "7", ".", "0", ".", "0", ".", "1", ".", "e", "x", "a", "m", "p", "l", "e", ".", "c", "o", "m">>
    [] host = "[::1]:8080" -> <<"[", ":", ":", "1", "]", ":", "8", "0", "8", "0">>
    [] host = "example.com" -> <<"e", "x", "a", "m", "p", "l", "e", ".", "c", "o", "m">>
    [] host = "other.com" -> <<"o", "t", "h", "e", "r", ".", "c", "o", "m">>
    [] host = "x" -> <<"x">>
    [] OTHER -> <<>>

isDigit(c) == c \in {"0", "1", "2", "3", "4", "5", "6", "7", "8", "9"}

\* \d\d?\d? at position i of h: the positions right after the digits matched
digitsAt(h, i) ==
  {i + n : n \in {n \in 1..3 : i + n - 1 <= Len(h) /\ \A k \in i..(i + n - 1) : isDigit(h[k])}}

\* a character of h, "" beyond its end
at(h, i) == IF i \in 1..Len(h) THEN h[i] ELSE ""

\* ^(localhost): the pattern's first alternative carries the ^ alone
startsWithLocalhost(h) ==
  Len(h) >= 9 /\ SubSeq(h, 1, 9) = <<"l", "o", "c", "a", "l", "h", "o", "s", "t">>

\* (127\.\d\d?\d?\.\d\d?\d?\.\d\d?\d?): the middle alternative has no anchor
containsLoopback4(h) ==
  \E i \in 1..Len(h) :
    /\ at(h, i) = "1" /\ at(h, i + 1) = "2" /\ at(h, i + 2) = "7" /\ at(h, i + 3) = "."
    /\ \E j \in digitsAt(h, i + 4) :
         /\ at(h, j) = "."
         /\ \E k \in digitsAt(h, j + 1) :
              at(h, k) = "." /\ digitsAt(h, k + 1) # {}

\* (\[[0\:]*\:[0\:]*\:0?0?0?1\])$: the last alternative carries the $ alone
endsWithLoopback6(h) ==
  \E i \in 1..Len(h) : \E z \in 0..3 :
    LET colon == Len(h) - 2 - z
    IN  /\ at(h, i) = "[" /\ i < colon
        /\ at(h, Len(h)) = "]" /\ at(h, Len(h) - 1) = "1"
        /\ \A k \in (colon + 1)..(Len(h) - 2) : at(h, k) = "0"
        /\ at(h, colon) = ":"
        /\ \A k \in (i + 1)..(colon - 1) : at(h, k) \in {"0", ":"}
        /\ \E k \in (i + 1)..(colon - 1) : at(h, k) = ":"

\* the localhost pattern of testLink applied to req.uri.host, which holds
\* the port of the link as well
localhost(host) ==
  \/ startsWithLocalhost(chars(host))
  \/ containsLoopback4(chars(host))
  \/ endsWithLoopback6(chars(host))

\* the first of query.sha1, query.md5, query.crc32 that is set (queryHashes)
linkHashOf(link) ==
  LET query == urlParse(link).query
  IN  IF ~options.queryHashes THEN ""
      ELSE IF query.sha1 # "" THEN query.sha1
      ELSE IF query.md5 # "" THEN query.md5
      ELSE query.crc32

\* url.resolve(page, link) for the references of the model: an absolute link
\* stands as it is, a relative one takes the page's protocol and host, and
\* the page's path and query too when it has no path of its own
urlResolve(page, link) ==
  LET from == urlParse(page)
      to == urlParse(link)
  IN  IF to.protocol # "" THEN link
      ELSE urlFormat([to EXCEPT !.protocol = from.protocol,
                                !.host = from.host,
                                !.pathname = IF to.pathname = "" THEN from.pathname ELSE @,
                                !.query = IF to.pathname = "" THEN from.query ELSE @])

\* a worklist that only grows at its end
spliceAtEnd(seq, index, item) == Append(seq, item)

\* a worklist that takes every new item at its front
spliceInFront(seq, index, item) == <<item>> \o seq

\* pendingCallbacks.splice(index, 0, item); index counts from 0
splice(seq, index, item) ==
  SubSeq(seq, 1, index) \o <<item>> \o SubSeq(seq, index + 1, Len(seq))

\* the element/attribute pairs testPage walks, in its order
pairs ==
  << <<"a", "href">>, <<"area", "href">>, <<"audio", "src">>, <<"embed", "src">>,
     <<"iframe", "src">>, <<"img", "src">>, <<"input", "src">>, <<"link", "href">>,
     <<"object", "data">>, <<"script", "src">>, <<"source", "src">>,
     <<"track", "src">>, <<"video", "src">> >>

\* a new testPage/testLink closure is entered in the history of checks
NewCheck(s, type, page, link) ==
  [s EXCEPT !.checks = Append(@, [type |-> type, page |-> page, link |-> link,
                                  by |-> s.self]),
            !.cbCalls = Append(@, 0)]

\* addLinks: queue a testLink closure for every matching element of the body,
\* from position index of the worklist on; returns the state and the new index
RECURSIVE addLinks(_, _, _, _, _, _, _)
addLinks(s, body, from, element, attribute, page, index) ==
  IF from > Len(body) THEN [s |-> s, index |-> index]
  ELSE
    LET e == body[from]
        link == e.value
        resolvedLink == urlResolve(page, link)
        parsedLink == urlParse(resolvedLink)
        pageHostname == urlParse(page).host
        wanted ==
          /\ e.tag = element /\ e.attr = attribute
          /\ link # NoUrl
          /\ parsedLink.protocol \in {"http:", "https:", "file:"}
          /\ (~options.onlySameDomain \/ parsedLink.host = pageHostname)
          /\ ~isLinkIgnored(resolvedLink)
        s1 == NewCheck(s, "testLink", page, resolvedLink)
        s2 == [s1 EXCEPT !.pendingCallbacks =
                 splice(@, index, [type |-> "testLink", page |-> page,
                                   link |-> resolvedLink, id |-> Len(s1.checks)])]
    IN  IF wanted THEN addLinks(s2, body, from + 1, element, attribute, page, index + 1)
        ELSE addLinks(s, body, from + 1, element, attribute, page, index)

\* the forEach over pairs in testPage
RECURSIVE addAllLinks(_, _, _, _, _)
addAllLinks(s, body, p, page, index) ==
  IF p > Len(pairs) THEN s
  ELSE LET r == addLinks(s, body, 1, pairs[p][1], pairs[p][2], page, index)
       IN  addAllLinks(r.s, body, p + 1, page, r.index)

-----------------------------------------------------------------------------
(* The worklist and the checks *)

\* the summary text of the 'done' callback: a line per page whenever the page
\* differs from the one of the previous issue, then the issue's message
RECURSIVE summaryOf(_, _, _)
summaryOf(list, i, currentPage) ==
  IF i > Len(list) THEN <<>>
  ELSE LET page == list[i][1]
           message == list[i][2]
       IN  (IF currentPage # page THEN << [page |-> page] >> ELSE <<>>)
             \o << [message |-> message] >>
             \o summaryOf(list, i + 1, page)

\* a 'done' callback that writes the summary of a run without Issues too
doneCallbackAlwaysSummary(s) ==
  LET issueCount == Len(s.issues)
      s1 == IF options.summary
            THEN hostError([s EXCEPT !.self = 0], [kind |-> "Summary of issues",
                               lines |-> summaryOf(s.issues, 1, NoUrl)])
            ELSE s
      err == issueCount # 0
  IN  [s1 EXCEPT !.doneCalls = Append(@, [err |-> err, issueCount |-> issueCount]),
                 !.phase = "done"]

\* a 'done' callback that goes on with next() as the checks do
doneCallbackThenNext(s) ==
  LET issueCount == Len(s.issues)
      s1 == IF issueCount # 0 /\ options.summary
            THEN hostError([s EXCEPT !.self = 0], [kind |-> "Summary of issues",
                               lines |-> summaryOf(s.issues, 1, NoUrl)])
            ELSE s
      err == issueCount # 0
  IN  [s1 EXCEPT !.doneCalls = Append(@, [err |-> err, issueCount |-> issueCount]),
                 !.phase = "done", !.nextDue = TRUE]

\* a 'done' callback that hands an Error to done whatever the count is
doneCallbackAlwaysErr(s) ==
  LET issueCount == Len(s.issues)
      s1 == IF issueCount # 0 /\ options.summary
            THEN hostError([s EXCEPT !.self = 0], [kind |-> "Summary of issues",
                               lines |-> summaryOf(s.issues, 1, NoUrl)])
            ELSE s
      err == TRUE
  IN  [s1 EXCEPT !.doneCalls = Append(@, [err |-> err, issueCount |-> issueCount]),
                 !.phase = "done"]

\* the 'done' callback queued behind the pages
doneCallback(s) ==
  LET issueCount == Len(s.issues)
      s1 == IF issueCount # 0 /\ options.summary
            THEN hostError([s EXCEPT !.self = 0], [kind |-> "Summary of issues",
                               lines |-> summaryOf(s.issues, 1, NoUrl)])
            ELSE s
      err == issueCount # 0
  IN  [s1 EXCEPT !.doneCalls = Append(@, [err |-> err, issueCount |-> issueCount]),
                 !.phase = "done"]

\* testPage(page)(callback) up to the point where it returns: the GET is sent
testPage(s, page, id) ==
  send(s, [NoReq EXCEPT !.type = "page", !.id = id, !.page = page, !.link = page,
                        !.via = requestFor(page), !.method = "GET",
                        !.useGetRequest = TRUE])

\* callback(): the argument every check is given is next.  The call is the
\* last statement of each of its callers, so next() runs when the caller is
\* left: run(s) makes that call
callback(s, id) == [s EXCEPT !.cbCalls[id] = @ + 1, !.nextDue = TRUE]

\* a request that starts as a probe whatever options.queryHashes is
requestLinkProbeFirst(s, page, link, retryWithGet, id) ==
  LET useGetRequest == retryWithGet
      sent == send(s, [NoReq EXCEPT !.type = "link", !.id = id, !.page = page,
                                    !.link = link, !.via = requestFor(link),
                                    !.method = IF useGetRequest THEN "GET" ELSE "HEAD",
                                    !.useGetRequest = useGetRequest,
                                    !.linkHash = linkHashOf(link),
                                    !.start = s.now])
  IN  IF ~options.noLocalLinks THEN sent
      ELSE IF requestFor(link) = "requestFile"
           THEN Throw(sent)
      ELSE IF localhost(urlParse(link).host)
           THEN logPageError(sent, page, Msg("Local link", link, 0, ""))
      ELSE sent

\* testLink from 'Test the link' on: the request is sent with its handlers,
\* then the host of the request is tested against the localhost pattern
requestLink(s, page, link, retryWithGet, id) ==
  LET useGetRequest == retryWithGet \/ options.queryHashes
      sent == send(s, [NoReq EXCEPT !.type = "link", !.id = id, !.page = page,
                                    !.link = link, !.via = requestFor(link),
                                    !.method = IF useGetRequest THEN "GET" ELSE "HEAD",
                                    !.useGetRequest = useGetRequest,
                                    !.linkHash = linkHashOf(link),
                                    !.start = s.now])
  IN  IF ~options.noLocalLinks THEN sent
      ELSE IF requestFor(link) = "requestFile"
           THEN Throw(sent)    \* a file stream has no uri: req.uri.host throws
      ELSE IF localhost(urlParse(link).host)
           THEN logPageError(sent, page, Msg("Local link", link, 0, ""))
      ELSE sent

\* testLink's test of testedLinks: a link already tested is logged as visited
\* and calls back, another one is pushed and requested
testNewLink(s, page, link, id) ==
  LET noHashLink == noHashLinkOf(urlParse(link))
  IN  IF Contains(s.testedLinks, noHashLink)
      THEN callback(hostLog(s, Msg("Visited link", link, 0, "")), id)
      ELSE requestLink([s EXCEPT !.testedLinks = Append(@, noHashLink)],
                       page, link, FALSE, id)

\* testLink's warning for an empty fragment
warnEmptyFragment(s, page, link) ==
  IF options.noEmptyFragments /\ urlParse(link).hash = "#"
  THEN logPageError(s, page, Msg("Empty fragment", link, 0, ""))
  ELSE s

\* a testLink that warns for an empty fragment on the retry as well
testLinkWarnOnRetry(s, page, link, retryWithGet, id) ==
  IF retryWithGet
  THEN requestLink(warnEmptyFragment([s EXCEPT !.self = id], page, link),
                   page, link, TRUE, id)
  ELSE testNewLink(warnEmptyFragment([s EXCEPT !.self = id], page, link),
                   page, link, id)

\* a testLink that pushes the link on testedLinks on the retry as well
testLinkClaimOnRetry(s, page, link, retryWithGet, id) ==
  IF retryWithGet
  THEN requestLink([s EXCEPT !.self = id,
                             !.testedLinks = Append(@, noHashLinkOf(urlParse(link)))],
                   page, link, TRUE, id)
  ELSE testNewLink(warnEmptyFragment([s EXCEPT !.self = id], page, link),
                   page, link, id)

\* testLink(page, link, retryWithGet)(callback) up to the point where it returns
testLink(s, page, link, retryWithGet, id) ==
  IF retryWithGet
  THEN requestLink([s EXCEPT !.self = id], page, link, TRUE, id)
  ELSE testNewLink(warnEmptyFragment([s EXCEPT !.self = id], page, link),
                   page, link, id)

\* what next() does with the callback it shifted
start(s, cb) ==
  CASE cb.type = "testPage" ->
         testPage([s EXCEPT !.taken = Append(@, cb.id)], cb.page, cb.id)
    [] cb.type = "testLink" ->
         testLink([s EXCEPT !.taken = Append(@, cb.id)], cb.page, cb.link, FALSE, cb.id)
    [] OTHER -> doneCallback(s)

\* next(): shift the worklist and call what was shifted
next(s) ==
  IF s.pendingCallbacks = <<>>
  THEN Throw(s)    \* shift() gave undefined: calling it throws
  ELSE start([s EXCEPT !.pendingCallbacks = Tail(@)], Head(s.pendingCallbacks))

\* the calls of next() that callback() makes, until a check returns without
\* having called back
RECURSIVE run(_)
run(s) == IF s.nextDue THEN run(next([s EXCEPT !.nextDue = FALSE])) ELSE s

-----------------------------------------------------------------------------
(* The handlers of the requests' events *)

\* a responseFor that answers with the status 404
responseForNotFound(uri) == [statusCode |-> 404, href |-> uri, headers |-> NoHeaders]

\* responseFor(uri) of requestFile.js: status 200, no headers, href the uri
responseFor(uri) == [statusCode |-> 200, href |-> uri, headers |-> NoHeaders]

\* the patterns testPage applies to the cache and compression headers
cacheControlValid(cacheControl) ==
  cacheControl \in {"public", "no-cache", "max-age=0", "max-age=60", "public, max-age=0"}

\* an exemption from the ETag for no-cache only
cacheControlUncachedNoCacheOnly(cacheControl) == cacheControl \in {"no-cache"}

\* /no-cache|max-age=0/ over the headers of the model
cacheControlUncached(cacheControl) ==
  cacheControl \in {"no-cache", "max-age=0", "public, max-age=0"}
etagValid(etag) == etag \in {"\"tag\"", "W/\"tag\""}
contentEncodingValid(contentEncoding) == contentEncoding \in {"gzip", "deflate"}

\* parser.onerror for every error of the strict parse of the body
RECURSIVE checkXhtml(_, _, _, _)
checkXhtml(s, page, parseErrors, i) ==
  IF i > Len(parseErrors) THEN s
  ELSE checkXhtml(logPageError(s, page, Msg(parseErrors[i], NoUrl, 0, "")),
                  page, parseErrors, i + 1)

\* testPage: the links of the body are queued (checkLinks)
pageLinks(s, page, body) ==
  IF options.checkLinks THEN addAllLinks(s, body.elements, 1, page, 0) ELSE s

\* testPage: the structure of the body is checked (checkXhtml)
pageXhtml(s, page, body) ==
  IF options.checkXhtml THEN checkXhtml(s, page, body.parseErrors, 1) ELSE s

\* a response time check that reports a page that took exactly the maximum
pageResponseTimeOrEqual(s, page, elapsed) ==
  IF options.maxResponseTime # 0 /\ options.maxResponseTime <= elapsed
  THEN logPageError(s, page, Msg("Page response took more than", NoUrl,
                                 options.maxResponseTime, ""))
  ELSE s

\* testPage: the response time is checked (maxResponseTime)
pageResponseTime(s, page, elapsed) ==
  IF options.maxResponseTime # 0 /\ options.maxResponseTime < elapsed
  THEN logPageError(s, page, Msg("Page response took more than", NoUrl,
                                 options.maxResponseTime, ""))
  ELSE s

\* testPage: the Cache-Control header is checked (checkCaching)
pageCacheControl(s, page, cacheControl) ==
  IF ~options.checkCaching THEN s
  ELSE IF cacheControl = ""
  THEN logPageError(s, page, Msg("Missing Cache-Control header in response", NoUrl, 0, ""))
  ELSE IF ~cacheControlValid(cacheControl)
  THEN logPageError(s, page, Msg("Invalid Cache-Control header in response", NoUrl, 0,
                                 cacheControl))
  ELSE s

\* testPage: the ETag header is checked (checkCaching)
pageEtag(s, page, cacheControl, etag) ==
  IF ~options.checkCaching THEN s
  ELSE IF etag # ""
  THEN IF ~etagValid(etag)
       THEN logPageError(s, page, Msg("Invalid ETag header in response", NoUrl, 0, etag))
       ELSE s
  ELSE IF cacheControl = "" \/ ~cacheControlUncached(cacheControl)
  THEN logPageError(s, page, Msg("Missing ETag header in response", NoUrl, 0, ""))
  ELSE s

\* testPage: the Content-Encoding header is checked (checkCompression)
pageCompression(s, page, contentEncoding) ==
  IF ~options.checkCompression THEN s
  ELSE IF contentEncoding = ""
  THEN logPageError(s, page, Msg("Missing Content-Encoding header in response", NoUrl, 0, ""))
  ELSE IF ~contentEncodingValid(contentEncoding)
  THEN logPageError(s, page, Msg("Invalid Content-Encoding header in response", NoUrl, 0,
                                 contentEncoding))
  ELSE s

\* a callback that queues the links for the page as it was listed
pageOkLinksOfListedPage(s, page, res, body, elapsed) ==
  pageCompression(
    pageEtag(
      pageCacheControl(
        pageResponseTime(
          pageXhtml(
            pageLinks(
              hostLog(s, [Msg("Page", page, 0, "") EXCEPT
                            !.to = IF page = res.href THEN NoUrl ELSE res.href]),
              page, body),
            page, body),
          page, elapsed),
        page, res.headers.cacheControl),
      page, res.headers.cacheControl, res.headers.etag),
    page, res.headers.contentEncoding)

\* testPage's callback for a 2xx response.  logError stays bound to the page
\* the closure was made for; the links are queued for res.request.href
pageOk(s, page, res, body, elapsed) ==
  pageCompression(
    pageEtag(
      pageCacheControl(
        pageResponseTime(
          pageXhtml(
            pageLinks(
              hostLog(s, [Msg("Page", page, 0, "") EXCEPT
                            !.to = IF page = res.href THEN NoUrl ELSE res.href]),
              res.href, body),
            page, body),
          page, elapsed),
        page, res.headers.cacheControl),
      page, res.headers.cacheControl, res.headers.etag),
    page, res.headers.contentEncoding)

\* a status test that lets a 3xx response pass
pageStatusBadFrom400(statusCode) == statusCode < 200 \/ 400 <= statusCode

\* (res.statusCode < 200) || (300 <= res.statusCode)
pageStatusBad(statusCode) == statusCode < 200 \/ 300 <= statusCode

\* the callback testPage gives to get(): err is "" when there is no error
testPageCallback(s, r, err, res, body, elapsed) ==
  callback(
    IF err # ""
    THEN logPageError(close(s, r), r.page, Msg("Page error", r.page, 0, err))
    ELSE IF pageStatusBad(res.statusCode)
    THEN logPageError(close(s, r), r.page, Msg("Bad page", r.page, res.statusCode, ""))
    ELSE pageOk(close(s, r), r.page, res, body, elapsed),
    r.id)

\* an 'error' handler that leaves the request running
testLinkOnErrorNoAbort(s, r, err) ==
  callback(logPageError(s, r.page, took(s, r, Msg("Link error", r.link, 0, err))), r.id)

\* an 'error' handler that retries a failed probe as a full request
testLinkOnErrorRetry(s, r, err) ==
  IF r.useGetRequest
  THEN callback(close(logPageError(s, r.page, took(s, r, Msg("Link error", r.link, 0, err))), r), r.id)
  ELSE testLink(close(s, r), r.page, r.link, TRUE, r.id)

\* an 'error' handler that takes the link off testedLinks again
testLinkOnErrorForget(s, r, err) ==
  callback(close([logPageError(s, r.page, took(s, r, Msg("Link error", r.link, 0, err)))
                    EXCEPT !.testedLinks = without(@, noHashLinkOf(urlParse(r.link)))],
                 r), r.id)

\* testLink's handler of 'error': log the Issue, abort, call back
testLinkOnError(s, r, err) ==
  callback(close(logPageError(s, r.page, took(s, r, Msg("Link error", r.link, 0, err))), r), r.id)

\* testLink's handler of 'response': res = response
testLinkOnResponse(s, r, response) ==
  [s EXCEPT !.inflight =
     [i \in 1..Len(@) |->
        IF @[i] = r /\ ~\E j \in 1..(i - 1) : @[j] = r
        THEN [r EXCEPT !.res = response] ELSE @[i]]]

\* a success test that leaves 200 out
statusAbove200(statusCode) == 200 < statusCode /\ statusCode < 300

\* (200 <= res.statusCode) && (res.statusCode < 300)
statusIs2xx(statusCode) == 200 <= statusCode /\ statusCode < 300

\* the comparison of the digest with the hash the link names
checkHash(s, r, contentHash) ==
  IF r.linkHash = "" THEN s
  ELSE IF toUpperCase(r.linkHash) = toUpperCase(contentHash)
  THEN hostLog(s, Msg("Hash", r.link, 0, ""))
  ELSE logPageError(s, r.page, Msg("Hash error", r.link, 0, toLowerCase(contentHash)))

\* an Issue that reports every status outside 2xx as a bad link
badLinkOnly(r) == Msg("Bad link", r.link, r.res.statusCode, "")

\* an Issue that reports a 3xx as redirected whatever options.noRedirects is
badLinkAlwaysRedirected(r) ==
  IF 300 <= r.res.statusCode /\ r.res.statusCode < 400
  THEN Msg("Redirected link", r.link, r.res.statusCode,
           IF r.res.headers.location # "" THEN r.res.headers.location
           ELSE "[Missing Location header]")
  ELSE Msg("Bad link", r.link, r.res.statusCode, "")

\* the Issue of a full request that ended outside 2xx
badLink(r) ==
  IF 300 <= r.res.statusCode /\ r.res.statusCode < 400 /\ options.noRedirects
  THEN Msg("Redirected link", r.link, r.res.statusCode,
           IF r.res.headers.location # "" THEN r.res.headers.location
           ELSE "[Missing Location header]")
  ELSE Msg("Bad link", r.link, r.res.statusCode, "")

\* a handler of 'end' that follows every probe by a full request
testLinkOnEndAlwaysFull(s, r, contentHash) ==
  IF ~r.useGetRequest
  THEN testLink(close(s, r), r.page, r.link, TRUE, r.id)
  ELSE IF statusIs2xx(r.res.statusCode) /\ isArray(r.linkHash)
  THEN Throw(hostLog(close(s, r), took(s, r, Msg("Link", r.link, 0, ""))))
  ELSE IF statusIs2xx(r.res.statusCode)
  THEN callback(checkHash(hostLog(close(s, r), took(s, r, Msg("Link", r.link, 0, ""))),
                          r, contentHash), r.id)
  ELSE callback(logPageError(close(s, r), r.page, took(s, r, badLink(r))), r.id)

\* a handler of 'end' that puts the check back in front of the worklist
\* after a probe outside 2xx and goes on with next()
testLinkOnEndRequeue(s, r, contentHash) ==
  IF statusIs2xx(r.res.statusCode) /\ isArray(r.linkHash)
  THEN Throw(hostLog(close(s, r), took(s, r, Msg("Link", r.link, 0, ""))))
  ELSE IF statusIs2xx(r.res.statusCode)
  THEN callback(checkHash(hostLog(close(s, r), took(s, r, Msg("Link", r.link, 0, ""))),
                          r, contentHash), r.id)
  ELSE IF r.useGetRequest
  THEN callback(logPageError(close(s, r), r.page, took(s, r, badLink(r))), r.id)
  ELSE [close(s, r) EXCEPT !.pendingCallbacks =
                             <<[type |-> "testLink", page |-> r.page,
                                link |-> r.link, id |-> r.id]>> \o @,
                           !.nextDue = TRUE]

\* a handler of 'end' that compares the digest whatever the status is
testLinkOnEndHashAlways(s, r, contentHash) ==
  IF isArray(r.linkHash)
  THEN Throw(hostLog(close(s, r), took(s, r, Msg("Link", r.link, 0, ""))))
  ELSE IF statusIs2xx(r.res.statusCode)
  THEN callback(checkHash(hostLog(close(s, r), took(s, r, Msg("Link", r.link, 0, ""))),
                          r, contentHash), r.id)
  ELSE IF r.useGetRequest
  THEN callback(checkHash(logPageError(close(s, r), r.page, took(s, r, badLink(r))),
                          r, contentHash), r.id)
  ELSE testLink(close(s, r), r.page, r.link, TRUE, r.id)

\* testLink's handler of 'end', the last event of a request; contentHash is
\* what hash.read() gives
testLinkOnEnd(s, r, contentHash) ==
  IF statusIs2xx(r.res.statusCode) /\ isArray(r.linkHash)
  THEN \* linkHash.toUpperCase is not a function: a TypeError leaves the handler
       Throw(hostLog(close(s, r), took(s, r, Msg("Link", r.link, 0, ""))))
  ELSE IF statusIs2xx(r.res.statusCode)
  THEN callback(checkHash(hostLog(close(s, r), took(s, r, Msg("Link", r.link, 0, ""))),
                          r, contentHash), r.id)
  ELSE IF r.useGetRequest
  THEN callback(logPageError(close(s, r), r.page, took(s, r, badLink(r))), r.id)
  ELSE testLink(close(s, r), r.page, r.link, TRUE, r.id)

\* onReadable of requestFile.js: 'response' and 'end' are emitted in one turn
onReadable(s, r, contentHash) ==
  testLinkOnEnd(testLinkOnResponse(s, r, responseFor(r.link)),
                [r EXCEPT !.res = responseFor(r.link)], contentHash)

-----------------------------------------------------------------------------
(* The environment: what the caller passes and what the requests answer *)

\* options.pageUrls as the caller writes them; "p2" has no protocol
PageInputs == {PageHttp, "p2"}

StatusCodes == {200, 301, 404}
Digests == {"ab", "cd"}
TransportError(uri) == IF requestFor(uri) = "requestFile" THEN "ENOENT" ELSE "ECONNREFUSED"

\* the final URL of a page fetch: a file is never redirected
Hrefs(page) ==
  IF requestFor(page) = "requestFile" THEN {page}
  ELSE {page, RedirectTarget(page)}
         \cup (IF web.away THEN {"http://other.com/o"} ELSE {})

HeaderSets ==
  [location : {""},
   cacheControl : IF options.checkCaching
                  THEN {"", "public", "no-cache", "bogus", "public, max-age=0"} ELSE {""},
   etag : IF options.checkCaching THEN {"", "\"tag\"", "tag"} ELSE {""},
   contentEncoding : IF options.checkCompression THEN {"", "gzip", "br"} ELSE {""}]

\* the bodies a page may still have: the run holds at most MaxLinks elements
Bodies ==
  LET queued == Cardinality({i \in 1..Len(checks) : checks[i].type = "testLink"})
  IN  SeqsUpTo(web.elements, web.links - queued)

\* the (err, res, body, elapsed) a page fetch may end with; what the code does
\* not read in a case is left out of the enumeration
PageOutcomes(page) ==
  LET file == requestFor(page) = "requestFile"
      noBody == [elements |-> <<>>, parseErrors |-> <<>>]
      bodies == [elements : IF options.checkLinks THEN Bodies ELSE {<<>>},
                 parseErrors : IF options.checkXhtml
                               THEN {<<>>, <<"Unexpected close tag">>,
                                     <<"Invalid character entity", "Unexpected close tag">>}
                               ELSE {<<>>}]
      times == IF options.maxResponseTime # 0 THEN {50, 100, 150} ELSE {50}
      failed == {[err |-> TransportError(page), res |-> NoRes, body |-> noBody, elapsed |-> 50]}
      bad == IF file THEN {}
             ELSE {[err |-> "", res |-> [statusCode |-> c, href |-> page, headers |-> NoHeaders],
                    body |-> noBody, elapsed |-> 50] : c \in StatusCodes \ {200}}
      good == {[err |-> "",
                res |-> IF file THEN responseFor(page)
                        ELSE [statusCode |-> 200, href |-> h, headers |-> hd],
                body |-> b, elapsed |-> e] :
                  h \in Hrefs(page), hd \in (IF file THEN {NoHeaders} ELSE HeaderSets),
                  b \in bodies, e \in times}
  IN  failed \cup bad \cup good

\* the responses a link request may get.  A HEAD response is only tested for
\* 2xx; request follows a redirect that names a Location unless followRedirect
\* is off, so only then a 3xx response carries one
LinkResponses(r) ==
  LET codes == StatusCodes
      \* the headers of the answer to a HEAD request are never read
      locations(c) == IF 300 <= c /\ c < 400 /\ options.noRedirects /\ r.useGetRequest
                      THEN {"", "/x"} ELSE {""}
  IN  UNION {{[statusCode |-> c, href |-> r.link,
               headers |-> [NoHeaders EXCEPT !.location = l]] : l \in locations(c)} :
             c \in codes}

ContentHashes(r) == IF r.linkHash # "" THEN Digests ELSE {""}

-----------------------------------------------------------------------------
(* The arguments of module.exports(host, options, done) as JavaScript values:
   what typeof gives, whether the value is truthy, whether Array.isArray
   holds, and the number it is *)

Js(type, truthy, array, num) ==
  [type |-> type, truthy |-> truthy, isArray |-> array, num |-> num]

Undefined == Js("undefined", FALSE, FALSE, 0)
Null == Js("object", FALSE, FALSE, 0)
Obj == Js("object", TRUE, FALSE, 0)
Arr == Js("object", TRUE, TRUE, 0)
Fn == Js("function", TRUE, FALSE, 0)
Str == Js("string", TRUE, FALSE, 0)
Num(n) == Js("number", n # 0, FALSE, n)

\* the arguments of a call whose options are opts and valid
ValidArgs(opts) ==
  [host |-> Obj, log |-> Fn, error |-> Fn, done |-> Fn, options |-> Obj,
   pageUrls |-> Arr, linksToIgnore |-> Arr,
   maxResponseTime |-> Num(opts.maxResponseTime), userAgent |-> Undefined]

\* !value || (typeof (value) !== type)
missingOrNot(value, type) == ~value.truthy \/ value.type # type

\* a maxResponseTime test that only looks at the type
maxResponseTimeNotNumber(value) == value.truthy /\ value.type # "number"

\* options.maxResponseTime && (typeof (...) !== 'number' || (... <= 0))
maxResponseTimeInvalid(value) ==
  value.truthy /\ (value.type # "number" \/ value.num <= 0)

\* the userAgent branch that throws
userAgentInvalid(value) ==
  value.type # "undefined" /\ value.truthy /\ value.type # "string"

\* the checks of module.exports in the order of the code: the message of the
\* first Error thrown, "" when none is
validate(a) ==
  CASE missingOrNot(a.host, "object") ->
         "host parameter is missing or invalid; it should be an object"
    [] missingOrNot(a.log, "function") ->
         "host.log is missing or invalid; it should be a function"
    [] missingOrNot(a.error, "function") ->
         "host.error is missing or invalid; it should be a function"
    [] missingOrNot(a.done, "function") ->
         "done is missing or invalid; it should be a function"
    [] missingOrNot(a.options, "object") ->
         "options parameter is missing or invalid; it should be an object"
    [] ~a.pageUrls.truthy \/ ~a.pageUrls.isArray ->
         "pageUrls option is missing or invalid; it should be an array of URLs"
    [] a.linksToIgnore.truthy /\ ~a.linksToIgnore.isArray ->
         "linksToIgnore option is invalid; it should be an array"
    [] maxResponseTimeInvalid(a.maxResponseTime) ->
         "maxResponseTime option is invalid; it should be a positive number"
    [] userAgentInvalid(a.userAgent) ->
         "userAgent option is invalid; it should be a string or null"
    [] OTHER -> ""

\* the Errors thrown after options.pageUrls was replaced by its mapping
thrownAfterMap ==
  {"", "linksToIgnore option is invalid; it should be an array",
   "maxResponseTime option is invalid; it should be a positive number",
   "userAgent option is invalid; it should be a string or null"}

-----------------------------------------------------------------------------
(* The specification *)

OptionSets ==
  [pageUrls : SeqsUpTo(PageInputs, MaxPages),
   checkLinks : BOOLEAN, onlySameDomain : {FALSE}, noRedirects : BOOLEAN,
   noLocalLinks : BOOLEAN, noEmptyFragments : BOOLEAN, queryHashes : BOOLEAN,
   linksToIgnore : {<<>>}, checkXhtml : {FALSE}, checkCaching : {FALSE},
   checkCompression : {FALSE}, maxResponseTime : {0}, summary : BOOLEAN]

\* a process in which Grunt was not started
NoGrunt ==
  [force |-> FALSE, targets |-> <<>>, state |-> "idle", run |-> 0,
   pendingCallbacks |-> <<>>, issues |-> <<>>, log |-> <<>>, errors |-> <<>>,
   inflight |-> NoUrl,
   starts |-> <<>>, detected |-> <<>>, warnings |-> <<>>, finished |-> <<>>]

\* the state after the construction of the closure, before module.exports runs
Begin ==
  /\ now = 0
  /\ phase = "init"
  /\ raised = ""
  /\ pendingCallbacks = <<>>
  /\ issues = <<>>
  /\ testedLinks = <<>>
  /\ inflight = <<>>
  /\ log = <<>>
  /\ errors = <<>>
  /\ thrown = 0
  /\ doneCalls = <<>>
  /\ checks = <<>>
  /\ cbCalls = <<>>
  /\ taken = <<>>
  /\ requests = <<>>
  /\ outcomes = <<>>
  /\ loggedBy = <<>>
  /\ issuedBy = <<>>

Init ==
  /\ web = [elements |-> ElementUniverse, links |-> MaxLinks, away |-> FALSE, timed |-> FALSE]
  /\ options \in OptionSets
  /\ args = ValidArgs(options)
  /\ Begin
  /\ grunt = NoGrunt

\* an exception that escaped a handler is the host's: the process ends with
\* it, or the host traps it and the requests in flight go on
\* the time an event comes after the one before it
Durations == IF web.timed THEN {10, 20} ELSE {0}

\* the closure state when an event is handled d ms after the last one
Later(d) == [St EXCEPT !.now = @ + d]

Finish(s) ==
  \E hostDies \in (IF s.thrown > thrown THEN BOOLEAN ELSE {FALSE}) :
    Commit(IF hostDies THEN [s EXCEPT !.phase = "crashed"] ELSE s)

\* options.pageUrls.map: a URL without protocol becomes a file: URL
normalizePageUrl(pageUrl) ==
  LET parsed == urlParse(pageUrl)
  IN  IF parsed.protocol = "" THEN urlFormat([parsed EXCEPT !.protocol = "file:"])
      ELSE pageUrl

\* pageUrls.forEach: one testPage closure per page, in order
RECURSIVE queuePages(_, _, _)
queuePages(s, pageUrls, i) ==
  IF i > Len(pageUrls) THEN s
  ELSE LET s1 == NewCheck(s, "testPage", pageUrls[i], pageUrls[i])
       IN  queuePages([s1 EXCEPT !.pendingCallbacks =
                         Append(@, [type |-> "testPage", page |-> pageUrls[i],
                                    link |-> pageUrls[i], id |-> Len(s1.checks)])],
                      pageUrls, i + 1)

\* the body of module.exports: check the arguments and normalize the
\* options, which throws for invalid ones; then queue the pages and the
\* 'done' callback and call next()
checkPages ==
  /\ phase = "init"
  /\ LET pageUrls == [i \in 1..Len(options.pageUrls) |-> normalizePageUrl(options.pageUrls[i])]
         s1 == queuePages([St EXCEPT !.phase = "running"], pageUrls, 1)
         s2 == [s1 EXCEPT !.pendingCallbacks =
                  Append(@, [type |-> "done", page |-> NoUrl, link |-> NoUrl, id |-> 0])]
     IN  /\ web' = web
         /\ args' = args
         /\ raised' = validate(args)
         /\ options' = IF validate(args) \in thrownAfterMap
                       THEN [options EXCEPT !.pageUrls = pageUrls] ELSE options
         /\ IF validate(args) # ""
            THEN Commit([St EXCEPT !.phase = "failed"])
            ELSE Finish(run(next(s2)))

\* the callback of request.get / requestFile.get runs
PageResponse ==
  /\ phase = "running"
  /\ \E i \in 1..Len(inflight) :
       /\ inflight[i].type = "page"
       /\ \E o \in PageOutcomes(inflight[i].page) : \E d \in Durations :
            Finish(run(testPageCallback(
                     received(enter(Later(d), inflight[i],
                                    IF o.err # "" THEN "error" ELSE "callback",
                                    o.res.statusCode), o.res, o.body, o.elapsed),
                     inflight[i], o.err, o.res, o.body, o.elapsed)))
  /\ UNCHANGED <<web, options, args, raised>>

\* a link request emits 'error': a file that cannot be opened, or a
\* transport error before or after the response of an http(s) request
LinkError ==
  /\ phase = "running"
  /\ \E i \in 1..Len(inflight) :
       /\ inflight[i].type = "link"
       /\ \E d \in Durations :
            Finish(run(testLinkOnError(enter(Later(d), inflight[i], "error", 0),
                                       inflight[i], TransportError(inflight[i].link))))
  /\ UNCHANGED <<web, options, args, raised>>

\* an http(s) link request emits 'response'
LinkResponse ==
  /\ phase = "running"
  /\ \E i \in 1..Len(inflight) :
       /\ inflight[i].type = "link"
       /\ inflight[i].via = "request"
       /\ inflight[i].res = NoRes
       /\ \E response \in LinkResponses(inflight[i]) : \E d \in Durations :
            Finish(testLinkOnResponse(enter(Later(d), inflight[i], "response", 0),
                                      inflight[i], response))
  /\ UNCHANGED <<web, options, args, raised>>

\* an http(s) link request emits 'end'
LinkEnd ==
  /\ phase = "running"
  /\ \E i \in 1..Len(inflight) :
       /\ inflight[i].type = "link"
       /\ inflight[i].via = "request"
       /\ inflight[i].res # NoRes
       /\ \E contentHash \in ContentHashes(inflight[i]) : \E d \in Durations :
            Finish(run(testLinkOnEnd(
                     hashed(enter(Later(d), inflight[i], "end", inflight[i].res.statusCode),
                            contentHash),
                     inflight[i], contentHash)))
  /\ UNCHANGED <<web, options, args, raised>>

\* the stream of a file: link emits 'readable'
FileReadable ==
  /\ phase = "running"
  /\ \E i \in 1..Len(inflight) :
       /\ inflight[i].type = "link"
       /\ inflight[i].via = "requestFile"
       /\ \E contentHash \in ContentHashes(inflight[i]) : \E d \in Durations :
            Finish(run(onReadable(
                     hashed(enter(Later(d), inflight[i], "end",
                                  responseFor(inflight[i].link).statusCode), contentHash),
                     inflight[i], contentHash)))
  /\ UNCHANGED <<web, options, args, raised>>

Next ==
  \/ checkPages
  \/ PageResponse
  \/ LinkError
  \/ LinkResponse
  \/ LinkEnd
  \/ FileReadable

Spec == Init /\ [][Next]_vars

\* runs that check the pages themselves (markup, response time, caching and
\* compression), of one page with at most one link
OptionSetsPage ==
  [pageUrls : SeqsUpTo(PageInputs, MaxCheckedPages),
   checkLinks : BOOLEAN, onlySameDomain : {FALSE}, noRedirects : {FALSE},
   noLocalLinks : {FALSE}, noEmptyFragments : {FALSE}, queryHashes : {FALSE},
   linksToIgnore : {<<>>}, checkXhtml : BOOLEAN, checkCaching : BOOLEAN,
   checkCompression : BOOLEAN, maxResponseTime : {0, 100}, summary : {FALSE}]

InitPage ==
  /\ web = [elements |-> ElementUniverse, links |-> MaxCheckedLinks, away |-> FALSE, timed |-> FALSE]
  /\ options \in OptionSetsPage
  /\ args = ValidArgs(options)
  /\ Begin
  /\ grunt = NoGrunt

SpecPage == InitPage /\ [][Next]_vars

\* runs over pages whose links differ in their fragment only
OptionSetsFragment ==
  [pageUrls : SeqsUpTo(PageInputs, MaxPages),
   checkLinks : {TRUE}, onlySameDomain : {FALSE}, noRedirects : {FALSE},
   noLocalLinks : {FALSE}, noEmptyFragments : BOOLEAN, queryHashes : {FALSE},
   linksToIgnore : {<<>>}, checkXhtml : {FALSE}, checkCaching : {FALSE},
   checkCompression : {FALSE}, maxResponseTime : {0}, summary : {FALSE}]

InitFragment ==
  /\ web = [elements |-> FragmentElements, links |-> MaxLinks, away |-> FALSE, timed |-> FALSE]
  /\ options \in OptionSetsFragment
  /\ args = ValidArgs(options)
  /\ Begin
  /\ grunt = NoGrunt

SpecFragment == InitFragment /\ [][Next]_vars

\* runs with queryHashes over pages whose links name hashes
OptionSetsHash ==
  [pageUrls : SeqsUpTo(PageInputs, MaxPages),
   checkLinks : {TRUE}, onlySameDomain : {FALSE}, noRedirects : {FALSE},
   noLocalLinks : {FALSE}, noEmptyFragments : {FALSE}, queryHashes : BOOLEAN,
   linksToIgnore : {<<>>}, checkXhtml : {FALSE}, checkCaching : {FALSE},
   checkCompression : {FALSE}, maxResponseTime : {0}, summary : {FALSE}]

InitHash ==
  /\ web = [elements |-> HashElements, links |-> MaxLinks, away |-> FALSE, timed |-> FALSE]
  /\ options \in OptionSetsHash
  /\ args = ValidArgs(options)
  /\ Begin
  /\ grunt = NoGrunt

SpecHash == InitHash /\ [][Next]_vars

\* runs over pages whose links differ in scheme and host, with and without
\* onlySameDomain and a link to ignore
OptionSetsFilter ==
  [pageUrls : SeqsUpTo(PageInputs, MaxPages),
   checkLinks : BOOLEAN, onlySameDomain : BOOLEAN, noRedirects : {FALSE},
   noLocalLinks : {FALSE}, noEmptyFragments : {FALSE}, queryHashes : {FALSE},
   linksToIgnore : {<<>>, <<"http://example.com/p1">>}, checkXhtml : {FALSE},
   checkCaching : {FALSE}, checkCompression : {FALSE}, maxResponseTime : {0},
   summary : {FALSE}]

InitFilter ==
  /\ web = [elements |-> FilterElements, links |-> MaxLinks, away |-> FALSE, timed |-> FALSE]
  /\ options \in OptionSetsFilter
  /\ args = ValidArgs(options)
  /\ Begin
  /\ grunt = NoGrunt

SpecFilter == InitFilter /\ [][Next]_vars

\* runs with checkLinks over pages whose elements carry links in different
\* attributes
OptionSetsPairs ==
  [pageUrls : SeqsUpTo(PageInputs, MaxPages),
   checkLinks : {TRUE}, onlySameDomain : {FALSE}, noRedirects : {FALSE},
   noLocalLinks : {FALSE}, noEmptyFragments : {FALSE}, queryHashes : {FALSE},
   linksToIgnore : {<<>>}, checkXhtml : {FALSE}, checkCaching : {FALSE},
   checkCompression : {FALSE}, maxResponseTime : {0}, summary : {FALSE}]

InitPairs ==
  /\ web = [elements |-> PairElements, links |-> MaxLinks, away |-> FALSE, timed |-> FALSE]
  /\ options \in OptionSetsPairs
  /\ args = ValidArgs(options)
  /\ Begin
  /\ grunt = NoGrunt

SpecPairs == InitPairs /\ [][Next]_vars

\* runs with checkLinks over pages whose links differ in their host
OptionSetsLocal ==
  [pageUrls : SeqsUpTo(PageInputs, MaxCheckedPages),
   checkLinks : {TRUE}, onlySameDomain : {FALSE}, noRedirects : {FALSE},
   noLocalLinks : BOOLEAN, noEmptyFragments : {FALSE}, queryHashes : {FALSE},
   linksToIgnore : {<<>>}, checkXhtml : {FALSE}, checkCaching : {FALSE},
   checkCompression : {FALSE}, maxResponseTime : {0}, summary : {FALSE}]

InitLocal ==
  /\ web = [elements |-> LocalElements, links |-> MaxCheckedLinks, away |-> FALSE, timed |-> FALSE]
  /\ options \in OptionSetsLocal
  /\ args = ValidArgs(options)
  /\ Begin
  /\ grunt = NoGrunt

SpecLocal == InitLocal /\ [][Next]_vars

\* runs with a summary over up to three pages
OptionSetsSummary ==
  [pageUrls : SeqsUpTo(PageInputs, MaxSummaryPages),
   checkLinks : BOOLEAN, onlySameDomain : {FALSE}, noRedirects : {FALSE},
   noLocalLinks : {FALSE}, noEmptyFragments : {FALSE}, queryHashes : {FALSE},
   linksToIgnore : {<<>>}, checkXhtml : {FALSE}, checkCaching : {FALSE},
   checkCompression : {FALSE}, maxResponseTime : {0}, summary : {TRUE}]

InitSummary ==
  /\ web = [elements |-> ElementUniverse, links |-> MaxCheckedLinks, away |-> FALSE, timed |-> FALSE]
  /\ options \in OptionSetsSummary
  /\ args = ValidArgs(options)
  /\ Begin
  /\ grunt = NoGrunt

SpecSummary == InitSummary /\ [][Next]_vars

\* runs with checkLinks of a page whose fetch may be redirected to another
\* host
OptionSetsRedirect ==
  [pageUrls : SeqsUpTo(PageInputs, MaxCheckedPages),
   checkLinks : {TRUE}, onlySameDomain : BOOLEAN, noRedirects : {FALSE},
   noLocalLinks : {FALSE}, noEmptyFragments : {FALSE}, queryHashes : {FALSE},
   linksToIgnore : {<<>>}, checkXhtml : {FALSE}, checkCaching : {FALSE},
   checkCompression : {FALSE}, maxResponseTime : {0}, summary : {FALSE}]

InitRedirect ==
  /\ web = [elements |-> RedirectElements, links |-> MaxLinks, away |-> TRUE, timed |-> FALSE]
  /\ options \in OptionSetsRedirect
  /\ args = ValidArgs(options)
  /\ Begin
  /\ grunt = NoGrunt

SpecRedirect == InitRedirect /\ [][Next]_vars

\* runs with checkLinks in which the events of the requests take time
OptionSetsTime ==
  [pageUrls : SeqsUpTo(PageInputs, MaxCheckedPages),
   checkLinks : {TRUE}, onlySameDomain : {FALSE}, noRedirects : BOOLEAN,
   noLocalLinks : {FALSE}, noEmptyFragments : {FALSE}, queryHashes : BOOLEAN,
   linksToIgnore : {<<>>}, checkXhtml : {FALSE}, checkCaching : {FALSE},
   checkCompression : {FALSE}, maxResponseTime : {0}, summary : {FALSE}]

InitTime ==
  /\ web = [elements |-> ElementUniverse, links |-> MaxCheckedLinks, away |-> FALSE,
            timed |-> TRUE]
  /\ options \in OptionSetsTime
  /\ args = ValidArgs(options)
  /\ Begin
  /\ grunt = NoGrunt

SpecTime == InitTime /\ [][Next]_vars

-----------------------------------------------------------------------------
(* The Grunt task of tasks/checkPages.js.  Grunt loads the module once, so
   pendingCallbacks and issues are made once for the process; it runs the
   function given to registerMultiTask once per target, one target after the
   other.  The options of the targets of the model name pageUrls only, so
   every other option is normalized to false. *)

\* logPageError of the task: grunt.log.error and issues.push
taskLogPageError(g, page, message) ==
  [g EXCEPT !.errors = Append(@, message),
            !.issues = Append(@, <<page, message>>),
            !.detected = Append(@, g.run)]

\* grunt.fail.warn: the process ends unless Grunt runs with --force
taskFailWarn(g, issueCount) ==
  [g EXCEPT !.warnings = Append(@, [run |-> g.run, issueCount |-> issueCount]),
            !.state = IF g.force THEN @ ELSE "aborted"]

\* done(), the function this.async() gave: the target is finished
taskDone(g) ==
  IF g.state = "aborted" THEN g
  ELSE [g EXCEPT !.finished = Append(@, g.run), !.state = "idle"]

\* the 'done' callback of the task
taskDoneCallback(g) ==
  LET issueCount == Len(g.issues)
  IN  taskDone(IF issueCount # 0 THEN taskFailWarn(g, issueCount) ELSE g)

\* testPage(page, options)(callback) of the task up to the point where it
\* returns: the request is sent
taskTestPage(g, page) == [g EXCEPT !.inflight = page]

\* next() of the task
taskNext(g) ==
  IF g.pendingCallbacks = <<>> THEN [g EXCEPT !.state = "aborted"]
  ELSE LET shifted == Head(g.pendingCallbacks)
           rest == [g EXCEPT !.pendingCallbacks = Tail(@)]
       IN  IF shifted.type = "testPage" THEN taskTestPage(rest, shifted.page)
           ELSE taskDoneCallback(rest)

\* the function testPage gives to end(): err, !res.ok or res.ok
taskPageEnd(g, page, outcome) ==
  CASE outcome = "err" ->
         taskLogPageError(g, page, Msg("Page error", page, 0, "ECONNREFUSED"))
    [] outcome = "bad" ->
         taskLogPageError(g, page, Msg("Bad page", page, 404, ""))
    [] OTHER -> [g EXCEPT !.log = Append(@, Msg("Page", page, 0, ""))]

\* the pages the targets of the model name
TargetSets == SeqsUpTo(SeqsUpTo({PageHttp}, MaxPages), MaxTargets)

\* the function given to grunt.registerMultiTask runs for the next target:
\* the pages and the 'done' callback are pushed on pendingCallbacks, and
\* next() is called
registerMultiTask ==
  /\ grunt.state = "idle"
  /\ grunt.run < Len(grunt.targets)
  /\ LET pageUrls == grunt.targets[grunt.run + 1]
         g == [grunt EXCEPT
                 !.run = @ + 1, !.state = "running",
                 !.starts = Append(@, [issues |-> Len(grunt.issues),
                                       worklist |-> Len(grunt.pendingCallbacks)]),
                 !.pendingCallbacks =
                   @ \o [i \in 1..Len(pageUrls) |-> [type |-> "testPage", page |-> pageUrls[i]]]
                     \o <<[type |-> "done", page |-> NoUrl]>>]
     IN  grunt' = taskNext(g)
  /\ UNCHANGED checker

\* the request of a page of the task ends: its callback runs, then next()
TaskPageEnd ==
  /\ grunt.state = "running"
  /\ grunt.inflight # NoUrl
  /\ \E outcome \in {"err", "bad", "ok"} :
       grunt' = taskNext(taskPageEnd([grunt EXCEPT !.inflight = NoUrl],
                                     grunt.inflight, outcome))
  /\ UNCHANGED checker

InitGrunt ==
  /\ web = [elements |-> ElementUniverse, links |-> MaxCheckedLinks, away |-> FALSE,
            timed |-> FALSE]
  /\ options \in {o \in OptionSets :
                    /\ o.pageUrls = <<>> /\ ~o.checkLinks /\ ~o.noRedirects
                    /\ ~o.noLocalLinks /\ ~o.noEmptyFragments /\ ~o.queryHashes
                    /\ ~o.summary}
  /\ args = ValidArgs(options)
  /\ Begin
  /\ grunt \in {[NoGrunt EXCEPT !.force = f, !.targets = ts] :
                  f \in BOOLEAN, ts \in TargetSets}

NextGrunt == registerMultiTask \/ TaskPageEnd

SpecGrunt == InitGrunt /\ [][NextGrunt]_vars

\* the values a caller may pass: a property of a host or of options that is
\* not an object is undefined
ArgSets ==
  {a \in [host : {Undefined, Null, Str, Obj},
          log : {Undefined, Str, Fn}, error : {Undefined, Str, Fn},
          done : {Undefined, Str, Fn},
          options : {Undefined, Str, Obj},
          pageUrls : {Undefined, Str, Arr},
          linksToIgnore : {Undefined, Str, Arr},
          maxResponseTime : {Undefined, Str, Num(0 - 1), Num(0), Num(100)},
          userAgent : {Undefined, Null, Str, Num(1)}] :
     /\ a.host # Obj => a.log = Undefined /\ a.error = Undefined
     /\ a.options # Obj =>
          /\ a.pageUrls = Undefined /\ a.linksToIgnore = Undefined
          /\ a.maxResponseTime = Undefined /\ a.userAgent = Undefined}

\* runs of one page for every kind of argument
OptionSetsArgs ==
  [pageUrls : SeqsUpTo(PageInputs, MaxCheckedPages),
   checkLinks : BOOLEAN, onlySameDomain : {FALSE}, noRedirects : {FALSE},
   noLocalLinks : {FALSE}, noEmptyFragments : {FALSE}, queryHashes : {FALSE},
   linksToIgnore : {<<>>}, checkXhtml : {FALSE}, checkCaching : {FALSE},
   checkCompression : {FALSE}, maxResponseTime : {0, 100}, summary : {FALSE}]

\* the normalized options hold what the arguments hold: the URLs of an array
\* pageUrls, the number of a positive maxResponseTime; without an array
\* pageUrls there is nothing to check
InitArgs ==
  /\ web = [elements |-> ElementUniverse, links |-> MaxCheckedLinks, away |-> FALSE, timed |-> FALSE]
  /\ args \in ArgSets
  /\ options \in OptionSetsArgs
  /\ args.pageUrls # Arr => options.pageUrls = <<>>
  /\ options.maxResponseTime =
       IF args.maxResponseTime.type = "number" /\ args.maxResponseTime.num > 0
       THEN args.maxResponseTime.num ELSE 0
  /\ args.pageUrls # Arr => ~options.checkLinks
  /\ Begin
  /\ grunt = NoGrunt

SpecArgs == InitArgs /\ [][Next]_vars

-----------------------------------------------------------------------------
(* Vocabulary of the properties *)

\* a URL without its fragment
Stripped(u) ==
  CASE u = "http://example.com/p1#" -> "http://example.com/p1"
    [] u = "http://example.com/r#" -> "http://example.com/r"
    [] u = "file:p2#" -> "file:p2"
    [] u = "http://other.com/o#" -> "http://other.com/o"
    [] u = "http://example.com/p1#f" -> "http://example.com/p1"
    [] u = "http://example.com/r#f" -> "http://example.com/r"
    [] u = "file:p2#f" -> "file:p2"
    [] OTHER -> u

Range(seq) == {seq[i] : i \in 1..Len(seq)}

IsLinkCheck(id) == checks[id].type = "testLink"
IsPageCheck(id) == checks[id].type = "testPage"
RequestsOf(id) == {i \in 1..Len(requests) : requests[i].id = id}
OutcomesOf(id) == {i \in 1..Len(outcomes) : outcomes[i].id = id}
InFlight(id) == \E i \in 1..Len(inflight) : inflight[i].id = id
IssuesBy(id) == {i \in 1..Len(issues) : issuedBy[i] = id}
LinesBy(id, kind) == {i \in 1..Len(log) : loggedBy[i] = id /\ log[i].kind = kind}
Ended == phase \in {"done", "crashed"}

-----------------------------------------------------------------------------
(* Properties *)

\* C1: every check taken from the worklist (page or link, http(s) or file:)
\* invokes its completion callback exactly once: never twice, and never zero
\* times, so a check that has not called back yet is one whose request is
\* still in flight in a run that has not ended.
C1_CallbackExactlyOnce ==
  \A k \in 1..Len(taken) :
    /\ cbCalls[taken[k]] <= 1
    /\ cbCalls[taken[k]] = 0 => ~Ended /\ InFlight(taken[k])

\* C2: a link occurrence whose fragment-stripped URL is already in the dedup
\* set when it is taken (an earlier link check on the same or a prior page
\* claimed it) logs one 'Visited link' notice, sends no request and has
\* completed; the dedup set is exactly the set of stripped targets of the
\* link checks taken, and each of them is requested by at most one check.
C2_VisitedLinkSendsNoRequest ==
  /\ \A k \in 1..Len(taken) :
       IsLinkCheck(taken[k]) =>
         LET id == taken[k]
             claimedBefore ==
               \E j \in 1..(k - 1) :
                 /\ IsLinkCheck(taken[j])
                 /\ Stripped(checks[taken[j]].link) = Stripped(checks[id].link)
         IN  /\ Stripped(checks[id].link) \in Range(testedLinks)
             /\ claimedBefore =>
                  /\ RequestsOf(id) = {}
                  /\ cbCalls[id] = 1
                  /\ Cardinality(LinesBy(id, "Visited link")) = 1
                  /\ \A i \in LinesBy(id, "Visited link") : log[i].url = checks[id].link
             /\ ~claimedBefore => LinesBy(id, "Visited link") = {}
  /\ \A u \in Range(testedLinks) :
       /\ \E k \in 1..Len(taken) :
            IsLinkCheck(taken[k]) /\ Stripped(checks[taken[k]].link) = u
       /\ Cardinality({requests[i].id : i \in
            {n \in 1..Len(requests) : requests[n].type = "link"
                                      /\ Stripped(requests[n].url) = u}}) <= 1

C2_Witness ==
  \E j, k \in 1..Len(taken) :
    /\ j < k
    /\ IsLinkCheck(taken[j]) /\ IsLinkCheck(taken[k])
    /\ checks[taken[j]].page # checks[taken[k]].page
    /\ checks[taken[j]].link # checks[taken[k]].link
    /\ Stripped(checks[taken[j]].link) = Stripped(checks[taken[k]].link)
    /\ RequestsOf(taken[j]) # {}
    /\ LinesBy(taken[k], "Visited link") # {}

\* C3 as claimed: once a target has been requested, no later check, page
\* check or link check, requests a target that is the same without its
\* fragment; the only repeated request is the GET retry of the same link check.
C3_NoTargetRequestedAgain ==
  \A i, j \in 1..Len(requests) :
    (i < j /\ Stripped(requests[i].url) = Stripped(requests[j].url)) =>
      /\ requests[i].id = requests[j].id
      /\ requests[i].type = "link"
      /\ requests[i].method = "HEAD" /\ requests[j].method = "GET"

\* C3 as amended: among link checks no target is requested again (the only
\* repeated request is the GET retry of the same link check, straight after
\* its HEAD), and the dedup set never holds a target twice; page checks take no
\* part in it: every page check taken sends exactly one request, whatever was
\* requested before.
C3_LinkTargetRequestedOnce ==
  /\ \A i, j \in 1..Len(requests) :
       (i < j /\ requests[i].type = "link" /\ requests[j].type = "link"
              /\ Stripped(requests[i].url) = Stripped(requests[j].url)) =>
         /\ requests[i].id = requests[j].id
         /\ j = i + 1
         /\ requests[i].method = "HEAD" /\ requests[j].method = "GET"
  /\ \A i, j \in 1..Len(testedLinks) : testedLinks[i] = testedLinks[j] => i = j
  /\ \A k \in 1..Len(taken) :
       IsPageCheck(taken[k]) => Cardinality(RequestsOf(taken[k])) = 1

C3_Witness ==
  /\ \E i, j \in 1..Len(requests) :
       /\ i < j
       /\ requests[i].type = "page" /\ requests[j].type = "link"
       /\ requests[i].url = Stripped(requests[j].url)
  /\ \E i \in 1..Len(requests) :
       /\ i < Len(requests)
       /\ requests[i].type = "link" /\ requests[i + 1].type = "link"
       /\ requests[i].id = requests[i + 1].id
  /\ \E k \in 1..Len(taken) : LinesBy(taken[k], "Visited link") # {}

\* the page requests of the run, in the order they were sent
PageRequests == SelectSeq(requests, LAMBDA q : q.type = "page")

\* C4: pages are fetched in the order of pageUrls (the n-th page request is
\* the request of the n-th listed page), and while the fetch of a page is in
\* flight every link check scheduled so far, by the pages before it, has been
\* taken and has completed, any retry included: none waits in the worklist,
\* none has a request in flight, each has called back.
C4_PagesInOrderLinksFirst ==
  /\ \A n \in 1..Len(PageRequests) :
       /\ n <= Len(options.pageUrls)
       /\ PageRequests[n].id = n
       /\ PageRequests[n].url = options.pageUrls[n]
  /\ \A i \in 1..Len(inflight) :
       inflight[i].type = "page" =>
         /\ \A j \in 1..Len(pendingCallbacks) : pendingCallbacks[j].type # "testLink"
         /\ \A id \in 1..Len(checks) :
              IsLinkCheck(id) =>
                /\ id \in Range(taken)
                /\ cbCalls[id] = 1
                /\ ~InFlight(id)

C4_Witness ==
  /\ Len(PageRequests) = 2
  /\ \E i \in 1..Len(inflight) : inflight[i].type = "page" /\ inflight[i].id = 2
  /\ \E id \in 1..Len(checks) :
       /\ IsLinkCheck(id)
       /\ Cardinality(RequestsOf(id)) = 2
  /\ \E id \in 1..Len(checks) :
       /\ IsLinkCheck(id)
       /\ LinesBy(id, "Link") # {}

\* C5: at most one request is in flight, it belongs to the check taken last,
\* and every check taken before the last one has called back.
C5_OneAtATime ==
  /\ Len(inflight) <= 1
  /\ \A i \in 1..Len(inflight) : taken # <<>> /\ inflight[i].id = taken[Len(taken)]
  /\ \A k \in 1..(Len(taken) - 1) : cbCalls[taken[k]] >= 1

C5_Witness ==
  /\ Len(taken) >= 3
  /\ Len(inflight) = 1
  /\ inflight[1].type = "link"
  /\ inflight[1].method = "GET"
  /\ \E k \in 1..(Len(taken) - 1) :
       /\ IsLinkCheck(taken[k])
       /\ \E i \in OutcomesOf(taken[k]) : outcomes[i].event = "error"

\* every check has been taken, has called back and has no request in flight
AllChecksTerminal ==
  \A id \in 1..Len(checks) :
    id \in Range(taken) /\ cbCalls[id] = 1 /\ ~InFlight(id)

\* C6: the final aggregation runs exactly once per run: never twice, only
\* when the worklist is empty and every page and link check is terminal, and
\* a run that has ended has invoked done exactly once.
C6_AggregationExactlyOnce ==
  /\ Len(doneCalls) <= 1
  /\ Len(doneCalls) = 1 => pendingCallbacks = <<>> /\ inflight = <<>> /\ AllChecksTerminal
  /\ Ended => Len(doneCalls) = 1

\* C7: no failure aborts, throws out of, or stalls the run: no exception
\* leaves a handler, the run is never ended by one, a run that has not
\* reported yet still has a request in flight to wake it, and a run that has
\* ended has reported the number of Issues recorded.
C7_RunAlwaysCompletes ==
  /\ thrown = 0
  /\ phase # "crashed"
  /\ phase = "running" => inflight # <<>>
  /\ phase = "done" =>
       /\ Len(doneCalls) = 1
       /\ doneCalls[1].issueCount = Len(issues)

\* the Issues of one kind a check recorded
IssuesOfKind(id, kind) == {i \in IssuesBy(id) : issues[i][2].kind = kind}

\* the probe of link check id ended with a status outside 2xx and its
\* full request ended with a 2xx status
RetriedAndPassed(id) ==
  /\ IsLinkCheck(id)
  /\ \E i \in OutcomesOf(id) :
       /\ outcomes[i].method = "HEAD" /\ outcomes[i].event = "end"
       /\ ~(200 <= outcomes[i].statusCode /\ outcomes[i].statusCode <= 299)
  /\ \E i \in OutcomesOf(id) :
       /\ outcomes[i].method = "GET" /\ outcomes[i].event = "end"
       /\ 200 <= outcomes[i].statusCode /\ outcomes[i].statusCode <= 299

\* C8 as claimed: a link whose probe returned non-2xx and whose full request
\* returned 2xx logs exactly one 'Link' line and records no Issue at all.
C8_RetryPassNoIssue ==
  \A id \in 1..Len(checks) :
    RetriedAndPassed(id) =>
      /\ Cardinality(LinesBy(id, "Link")) = 1
      /\ IssuesBy(id) = {}

\* C8 as amended: such a link ends as PASS: it has called back after two
\* requests, logged exactly one 'Link' line for the link, and recorded no
\* Issue about its outcome ('Bad link', 'Redirected link', 'Link error',
\* 'Hash error'); the only Issues it may have recorded are the policy Issues
\* 'Empty fragment' and 'Local link', which do not depend on the outcome.
C8_RetryPassNoOutcomeIssue ==
  \A id \in 1..Len(checks) :
    RetriedAndPassed(id) =>
      /\ Cardinality(RequestsOf(id)) = 2
      /\ cbCalls[id] = 1 /\ ~InFlight(id)
      /\ Cardinality(LinesBy(id, "Link")) = 1
      /\ \A i \in LinesBy(id, "Link") : log[i].url = checks[id].link
      /\ \A i \in IssuesBy(id) :
           issues[i][2].kind \in {"Empty fragment", "Local link"}

C8_Witness ==
  \E id \in 1..Len(checks) :
    /\ RetriedAndPassed(id)
    /\ LinesBy(id, "Link") # {}
    /\ IssuesBy(id) = {}

\* the lines on the error channel that are not the summary
IssueLines == SelectSeq(errors, LAMBDA e : e.kind # "Summary of issues")

\* C9: the count passed to done is the number of Issues recorded in the run,
\* each of which was written once to the error channel, and the error passed
\* to done is set exactly when that count is greater than zero.
C9_CountIsIssuesRecorded ==
  \A d \in 1..Len(doneCalls) :
    /\ doneCalls[d].issueCount = Len(issues)
    /\ doneCalls[d].issueCount = Len(IssueLines)
    /\ \A i \in 1..Len(issues) : issues[i][2] = IssueLines[i]
    /\ doneCalls[d].err <=> doneCalls[d].issueCount > 0

C9_Witness ==
  /\ Len(doneCalls) = 1
  /\ doneCalls[1].issueCount = 2
  /\ doneCalls[1].err
  /\ Len(errors) = 3

\* a request of link check id ended in a transport error
LinkErrored(id) ==
  IsLinkCheck(id) /\ \E i \in OutcomesOf(id) : outcomes[i].event = "error"

\* C10: a transport error on a request of a link check, probe or retry, is
\* terminal for the check: it recorded exactly one 'Link error' Issue, for
\* its page and link; the error is the last thing the check saw and no
\* request followed it; the check has called back and the run went on: the
\* next item of the worklist was taken.
C10_LinkErrorIsTerminal ==
  \A id \in 1..Len(checks) :
    LinkErrored(id) =>
      /\ Cardinality(IssuesOfKind(id, "Link error")) = 1
      /\ \A i \in IssuesOfKind(id, "Link error") :
           issues[i][1] = checks[id].page /\ issues[i][2].url = checks[id].link
      /\ \A i, j \in OutcomesOf(id) : outcomes[i].event = "error" => j <= i
      /\ Cardinality(RequestsOf(id)) = Cardinality(OutcomesOf(id))
      /\ Cardinality(RequestsOf(id)) <= 2
      /\ ~InFlight(id)
      /\ cbCalls[id] = 1
      /\ \E k \in 1..Len(taken) :
           taken[k] = id /\ (k < Len(taken) \/ Len(doneCalls) = 1)

C10_Witness ==
  /\ \E id \in 1..Len(checks) :
       /\ LinkErrored(id)
       /\ Cardinality(RequestsOf(id)) = 1
  /\ \E id \in 1..Len(checks) :
       /\ LinkErrored(id)
       /\ Cardinality(RequestsOf(id)) = 2
  /\ phase = "done"

\* the fetch of page check id ended in a transport error or outside 2xx
PageFailed(id) ==
  /\ IsPageCheck(id)
  /\ \E i \in OutcomesOf(id) :
       \/ outcomes[i].event = "error"
       \/ outcomes[i].event = "callback"
            /\ ~(200 <= outcomes[i].statusCode /\ outcomes[i].statusCode <= 299)

\* C11: a page whose fetch ended in a transport error or a non-2xx status
\* has recorded exactly one Issue, 'Page error' after an error and 'Bad page'
\* after a status, for the page; it has logged no line and scheduled no link
\* check (so no markup, response-time, cache-header or compression Issue was
\* recorded by it either); it has called back and the run went on: the next
\* item of the worklist was taken.
C11_FailedPageOneIssueOnly ==
  \A id \in 1..Len(checks) :
    PageFailed(id) =>
      /\ Cardinality(IssuesBy(id)) = 1
      /\ \A i \in IssuesBy(id) :
           /\ issues[i][1] = checks[id].page
           /\ issues[i][2].url = checks[id].page
           /\ \A o \in OutcomesOf(id) :
                issues[i][2].kind =
                  IF outcomes[o].event = "error" THEN "Page error" ELSE "Bad page"
      /\ \A i \in 1..Len(log) : loggedBy[i] # id
      /\ \A c \in 1..Len(checks) : checks[c].by # id
      /\ cbCalls[id] = 1 /\ ~InFlight(id)
      /\ \E k \in 1..Len(taken) :
           taken[k] = id /\ (k < Len(taken) \/ Len(doneCalls) = 1)

C11_Witness ==
  /\ options.checkLinks /\ options.checkXhtml /\ options.checkCaching
  /\ options.checkCompression /\ options.maxResponseTime # 0
  /\ \E id \in 1..Len(checks) :
       /\ PageFailed(id)
       /\ \E i \in IssuesBy(id) : issues[i][2].kind = "Bad page"
  /\ Len(doneCalls) = 1

\* the URL the fetch of page check id was redirected to, NoUrl if it was not
FinalUrl(id) ==
  IF \E i \in LinesBy(id, "Page") : log[i].to # NoUrl
  THEN log[CHOOSE i \in LinesBy(id, "Page") : log[i].to # NoUrl].to
  ELSE NoUrl

\* C12: after a page fetch that was redirected, every Issue recorded for the
\* page, by the page check itself (markup, response time, cache headers,
\* compression) and by the link checks it scheduled, is attributed to the
\* final URL of the fetch.
C12_IssuesAttributedToFinalUrl ==
  \A id \in 1..Len(checks) :
    (IsPageCheck(id) /\ FinalUrl(id) # NoUrl) =>
      /\ \A i \in IssuesBy(id) : issues[i][1] = FinalUrl(id)
      /\ \A c \in 1..Len(checks) :
           checks[c].by = id =>
             \A i \in IssuesBy(c) : issues[i][1] = FinalUrl(id)

\* link check id sent a request to the host localhost
DispatchedToLocalhost(id) ==
  /\ IsLinkCheck(id)
  /\ \E i \in RequestsOf(id) :
       requests[i].url \in {"http://localhost/l?sha1=AB"}

\* C13: with noLocalLinks, a link check that sent a request to a localhost
\* host has recorded exactly one 'Local link' Issue, whatever its outcome
\* and whether or not its probe was retried as a full request.
C13_OneLocalLinkIssue ==
  \A id \in 1..Len(checks) :
    (options.noLocalLinks /\ DispatchedToLocalhost(id)) =>
      Cardinality(IssuesOfKind(id, "Local link")) = 1

\* the links of the model whose fragment is exactly '#'
HasEmptyFragment(link) ==
  link \in {"http://example.com/p1#", "http://example.com/r#", "file:p2#"}

\* C14: with noEmptyFragments, every link occurrence taken from the worklist
\* whose fragment is exactly '#' has recorded exactly one 'Empty fragment'
\* Issue, for its page and link: one too when it was skipped as visited, and
\* only one when its probe was retried; an occurrence with another fragment
\* or none, one not taken yet, and any occurrence without the option has
\* recorded none.
C14_OneEmptyFragmentIssue ==
  \A id \in 1..Len(checks) :
    IsLinkCheck(id) =>
      /\ Cardinality(IssuesOfKind(id, "Empty fragment")) =
           IF options.noEmptyFragments /\ HasEmptyFragment(checks[id].link)
              /\ id \in Range(taken)
           THEN 1 ELSE 0
      /\ \A i \in IssuesOfKind(id, "Empty fragment") :
           issues[i][1] = checks[id].page /\ issues[i][2].url = checks[id].link

C14_Witness ==
  /\ \E id \in 1..Len(checks) :
       /\ IsLinkCheck(id) /\ HasEmptyFragment(checks[id].link)
       /\ LinesBy(id, "Visited link") # {}
       /\ IssuesOfKind(id, "Empty fragment") # {}
  /\ \E id \in 1..Len(checks) :
       /\ IsLinkCheck(id) /\ HasEmptyFragment(checks[id].link)
       /\ Cardinality(RequestsOf(id)) = 2
       /\ IssuesOfKind(id, "Empty fragment") # {}

\* the full requests (GET) of link check id that ended with a status in lo..hi
FullEnds(id, lo, hi) ==
  {i \in OutcomesOf(id) : /\ outcomes[i].method = "GET" /\ outcomes[i].event = "end"
                          /\ lo <= outcomes[i].statusCode /\ outcomes[i].statusCode <= hi}

\* what a 'Redirected link' Issue names for a full request that ended as o
LocationNamed(o) ==
  IF o.location # "" THEN o.location ELSE "[Missing Location header]"

\* with noRedirects, link check id recorded exactly one 'Redirected link'
\* Issue, for its page and link, that carries the status and names the
\* Location header of its full request or the marker, and never requested
\* anything but the link itself
RedirectReported(id) ==
  /\ Cardinality(FullEnds(id, 300, 399)) = 1
  /\ Cardinality(IssuesOfKind(id, "Redirected link")) = 1
  /\ \A i \in IssuesOfKind(id, "Redirected link") : \A o \in FullEnds(id, 300, 399) :
       /\ issues[i][1] = checks[id].page /\ issues[i][2].url = checks[id].link
       /\ issues[i][2].statusCode = outcomes[o].statusCode
       /\ issues[i][2].detail = LocationNamed(outcomes[o])
  /\ IssuesOfKind(id, "Bad link") = {}
  /\ \A q \in RequestsOf(id) : requests[q].url = checks[id].link
  /\ ~InFlight(id) /\ cbCalls[id] = 1

\* C15 as claimed: with noRedirects, a link whose full request answered 3xx
\* has recorded exactly one 'Redirected link' Issue naming the Location header
\* or '[Missing Location header]', after exactly two requests: the probe and
\* one full request.
C15_RedirectedAfterProbeAndFull ==
  \A id \in 1..Len(checks) :
    (IsLinkCheck(id) /\ options.noRedirects /\ FullEnds(id, 300, 399) # {}) =>
      /\ RedirectReported(id)
      /\ Cardinality(RequestsOf(id)) = 2
      /\ \E q \in RequestsOf(id) : requests[q].method = "HEAD"

\* C15 as amended: the same Issue is recorded after exactly one full request,
\* which follows one probe when queryHashes is off and is the only request of
\* the check, without any probe, when queryHashes is on.
C15_RedirectedAfterOneFull ==
  \A id \in 1..Len(checks) :
    (IsLinkCheck(id) /\ options.noRedirects /\ FullEnds(id, 300, 399) # {}) =>
      /\ RedirectReported(id)
      /\ Cardinality({q \in RequestsOf(id) : requests[q].method = "GET"}) = 1
      /\ Cardinality({q \in RequestsOf(id) : requests[q].method = "HEAD"}) =
           IF options.queryHashes THEN 0 ELSE 1
      /\ \A p, q \in RequestsOf(id) :
           (requests[p].method = "HEAD" /\ requests[q].method = "GET") => p < q

C15_Witness ==
  /\ options.noRedirects
  /\ \E id \in 1..Len(checks) :
       /\ IsLinkCheck(id) /\ Cardinality(RequestsOf(id)) = 2
       /\ \E i \in OutcomesOf(id) :
            outcomes[i].method = "HEAD" /\ outcomes[i].statusCode = 301
       /\ \E i \in IssuesOfKind(id, "Redirected link") : issues[i][2].detail = "/x"
  /\ \E id \in 1..Len(checks) :
       /\ IsLinkCheck(id)
       /\ \E i \in IssuesOfKind(id, "Redirected link") :
            issues[i][2].detail = "[Missing Location header]"

\* link check id recorded exactly one 'Bad link' Issue, for its page and link,
\* with the status of its full request o, and no 'Redirected link' Issue
BadLinkReported(id, o) ==
  /\ Cardinality(IssuesOfKind(id, "Bad link")) = 1
  /\ \A i \in IssuesOfKind(id, "Bad link") :
       /\ issues[i][1] = checks[id].page /\ issues[i][2].url = checks[id].link
       /\ issues[i][2].statusCode = outcomes[o].statusCode
  /\ IssuesOfKind(id, "Redirected link") = {}

\* C16: a link whose full request ended with a status outside 2xx and outside
\* 3xx has recorded exactly one 'Bad link' Issue and no 'Redirected link'
\* Issue, with noRedirects on or off; with noRedirects off a full request that
\* ended in 3xx is reported as 'Bad link' too, and no link check ever records
\* a 'Redirected link' Issue.
C16_OtherStatusIsBadLink ==
  \A id \in 1..Len(checks) :
    IsLinkCheck(id) =>
      /\ \A o \in FullEnds(id, 100, 199) \cup FullEnds(id, 400, 599) :
           BadLinkReported(id, o)
      /\ ~options.noRedirects =>
           /\ \A o \in FullEnds(id, 300, 399) : BadLinkReported(id, o)
           /\ IssuesOfKind(id, "Redirected link") = {}

C16_Witness ==
  /\ ~options.noRedirects
  /\ \E id \in 1..Len(checks) :
       IsLinkCheck(id) /\ FullEnds(id, 400, 599) # {} /\ IssuesOfKind(id, "Bad link") # {}
  /\ \E id \in 1..Len(checks) :
       IsLinkCheck(id) /\ FullEnds(id, 300, 399) # {} /\ IssuesOfKind(id, "Bad link") # {}

\* the hash values the query of a link of the model names
ExpectedHashes(link) ==
  CASE link = "http://example.com/z?sha1=AB" -> {"AB"}
    [] link = "http://example.com/z?sha1=AB&sha1=CD" -> {"AB", "CD"}
    [] link = "http://localhost/l?sha1=AB" -> {"AB"}
    [] OTHER -> {}

\* equality of a digest and a hash value of the model ignoring letter case
SameIgnoringCase(digest, value) ==
  <<digest, value>> \in {<<"ab", "AB">>, <<"cd", "CD">>}

\* C17: with queryHashes, a link check whose link names a hash and whose full
\* request ended in 2xx with digest d has logged exactly one 'Link' line; if
\* d equals a value the link names, ignoring letter case, it has logged
\* exactly one 'Hash' line and recorded no 'Hash error' Issue, and otherwise
\* it has recorded exactly one 'Hash error' Issue, for its page and link,
\* that contains d in lowercase, and logged no 'Hash' line.
C17_HashVerified ==
  \A id \in 1..Len(checks) :
    (IsLinkCheck(id) /\ options.queryHashes /\ ExpectedHashes(checks[id].link) # {}) =>
      \A o \in FullEnds(id, 200, 299) :
        /\ Cardinality(LinesBy(id, "Link")) = 1
        /\ IF \E value \in ExpectedHashes(checks[id].link) :
                SameIgnoringCase(outcomes[o].digest, value)
           THEN /\ Cardinality(LinesBy(id, "Hash")) = 1
                /\ IssuesOfKind(id, "Hash error") = {}
           ELSE /\ LinesBy(id, "Hash") = {}
                /\ Cardinality(IssuesOfKind(id, "Hash error")) = 1
                /\ \A i \in IssuesOfKind(id, "Hash error") :
                     /\ issues[i][1] = checks[id].page
                     /\ issues[i][2].url = checks[id].link
                     /\ issues[i][2].detail = outcomes[o].digest

\* an argument that was not passed
Missing(value) == value \in {Undefined, Null}

\* a required argument is missing or of the wrong kind: host (an object with
\* the functions log and error), done, options, options.pageUrls
RequiredInvalid(a) ==
  \/ Missing(a.host) \/ a.host.type # "object"
  \/ Missing(a.log) \/ a.log.type # "function"
  \/ Missing(a.error) \/ a.error.type # "function"
  \/ Missing(a.done) \/ a.done.type # "function"
  \/ Missing(a.options) \/ a.options.type # "object"
  \/ Missing(a.pageUrls) \/ ~a.pageUrls.isArray

\* the kinds the optional options must be of
IsPositiveNumber(value) == value.type = "number" /\ value.num > 0
IsString(value) == value.type = "string"

\* the run was refused: an Error was raised, no request was sent, no Issue
\* recorded, nothing written to either channel, done not invoked
Refused ==
  /\ phase = "failed" /\ raised # ""
  /\ requests = <<>> /\ inflight = <<>> /\ checks = <<>> /\ pendingCallbacks = <<>>
  /\ issues = <<>>
  /\ log = <<>> /\ errors = <<>>
  /\ doneCalls = <<>>

PageEnds(id) ==
  {o \in OutcomesOf(id) : /\ IsPageCheck(id) /\ outcomes[o].event = "callback"
                          /\ 200 <= outcomes[o].statusCode /\ outcomes[o].statusCode <= 299}

\* the link checks page check id scheduled for link
ScheduledFor(id, link) ==
  {c \in 1..Len(checks) : IsLinkCheck(c) /\ checks[c].by = id /\ checks[c].link = link}

\* the elements of body whose link, resolved against page, is link
Occurrences(body, page, link) ==
  {k \in 1..Len(body) : urlResolve(page, body[k].value) = link}

\* a resolved link of a page passes the filter: scheme, domain, ignore list
Acceptable(link, page) ==
  /\ urlParse(link).protocol \in {"http:", "https:", "file:"}
  /\ ~options.onlySameDomain \/ urlParse(link).host = urlParse(page).host
  /\ \A k \in 1..Len(options.linksToIgnore) : options.linksToIgnore[k] # link

\* the log lines and Issues that are about a link
LinkKinds ==
  {"Link", "Visited link", "Hash", "Link error", "Bad link", "Redirected link",
   "Hash error", "Local link", "Empty fragment"}

\* C19: with checkLinks, a page whose fetch ended in 2xx has scheduled, for
\* every resolved link, one link check per element of its body from which the
\* link is extracted if the link's scheme is http, https or file, its host is the host
\* of the page's effective URL or onlySameDomain is off, and it is no entry
\* of linksToIgnore; and none otherwise.  Every request for a link, every log
\* line and every Issue about a link comes from a link check that was
\* scheduled for that link, so a filtered link has none; without checkLinks
\* no link check exists.
C19_ScheduledIffAcceptable ==
  /\ \A id \in 1..Len(checks) : \A o \in PageEnds(id) : \A link \in UrlStrings :
       Cardinality(ScheduledFor(id, link)) =
         IF options.checkLinks /\ Acceptable(link, outcomes[o].href)
         THEN Cardinality({k \in Occurrences(outcomes[o].body, outcomes[o].href, link) :
                             <<outcomes[o].body[k].tag, outcomes[o].body[k].attr>>
                               \in Range(pairs)})
         ELSE 0
  /\ \A c \in 1..Len(checks) :
       IsLinkCheck(c) => PageEnds(checks[c].by) # {} /\ Acceptable(checks[c].link, checks[c].page)
  /\ \A q \in 1..Len(requests) :
       requests[q].type = "link" =>
         IsLinkCheck(requests[q].id) /\ requests[q].url = checks[requests[q].id].link
  /\ \A i \in 1..Len(log) :
       log[i].kind \in LinkKinds =>
         IsLinkCheck(loggedBy[i]) /\ log[i].url = checks[loggedBy[i]].link
  /\ \A i \in 1..Len(issues) :
       issues[i][2].kind \in LinkKinds =>
         IsLinkCheck(issuedBy[i]) /\ issues[i][2].url = checks[issuedBy[i]].link

\* both pages of a run with onlySameDomain and a link to ignore were fetched:
\* the bodies held a link of another scheme, one of another host, the ignored
\* one and one that passes, and only the last was scheduled and requested
C19_Witness ==
  /\ options.onlySameDomain /\ options.linksToIgnore # <<>>
  /\ \A value \in {"#", "mailto:x", "http://example.com/p1", "http://other.com/o"} :
       \E id \in 1..Len(checks) : \E o \in PageEnds(id) :
         \E k \in 1..Len(outcomes[o].body) : outcomes[o].body[k].value = value
  /\ Cardinality({c \in 1..Len(checks) : IsLinkCheck(c)}) = 1
  /\ \E q \in 1..Len(requests) :
       requests[q].type = "link" /\ requests[q].url = "http://example.com/p1#"
  /\ phase = "done"

\* the sixteen element/attribute pairs the documentation lists
TrackedPairs ==
  { <<"a", "href">>, <<"area", "href">>, <<"audio", "src">>, <<"embed", "src">>,
    <<"iframe", "src">>, <<"img", "src">>, <<"img", "srcset">>, <<"input", "src">>,
    <<"link", "href">>, <<"object", "data">>, <<"script", "src">>,
    <<"source", "src">>, <<"source", "srcset">>, <<"track", "src">>,
    <<"video", "src">>, <<"video", "poster">> }

\* C20: with checkLinks, a page whose fetch ended in 2xx has scheduled, for
\* every link that passes the filter, one link check per element of its body
\* that carries the link in an attribute of the sixteen tracked pairs:
\* a/href, area/href, audio/src, embed/src, iframe/src, img/src, img/srcset,
\* input/src, link/href, object/data, script/src, source/src, source/srcset,
\* track/src, video/src and video/poster.
C20_SixteenPairsScheduled ==
  \A id \in 1..Len(checks) : \A o \in PageEnds(id) : \A link \in UrlStrings :
    (options.checkLinks /\ Acceptable(link, outcomes[o].href)) =>
      Cardinality(ScheduledFor(id, link)) =
        Cardinality({k \in Occurrences(outcomes[o].body, outcomes[o].href, link) :
                       <<outcomes[o].body[k].tag, outcomes[o].body[k].attr>> \in TrackedPairs})

\* the links of the model whose host is 'localhost', an address of
\* 127.0.0.0/8 or a textual form of ::1
LocalLinks ==
  {"http://localhost/l", "http://localhost/l?sha1=AB", "http://127.0.0.1/l",
   "http://[::1]/l", "http://[::1]:8080/l"}

\* C21: with noLocalLinks, a link check that dispatched an http(s) request
\* has recorded a 'Local link' Issue if and only if the host of its link is
\* 'localhost', an address of 127.0.0.0/8 or a textual form of ::1; a host
\* that only begins with or contains such a form has none.  Without
\* noLocalLinks no such Issue is recorded.
C21_LocalLinkIffLocalHost ==
  \A id \in 1..Len(checks) :
    (IsLinkCheck(id) /\ \E q \in RequestsOf(id) : requests[q].via = "request") =>
      (IssuesOfKind(id, "Local link") # {}
         <=> (options.noLocalLinks /\ checks[id].link \in LocalLinks))

RECURSIVE PagesInOrder(_, _, _)
PagesInOrder(list, i, seen) ==
  IF i > Len(list) THEN seen
  ELSE PagesInOrder(list, i + 1,
                    IF list[i][1] \in Range(seen) THEN seen ELSE Append(seen, list[i][1]))

\* the messages of the Issues of page in list, in the order of the list
RECURSIVE MessagesOf(_, _, _)
MessagesOf(list, i, page) ==
  IF i > Len(list) THEN <<>>
  ELSE (IF list[i][1] = page THEN << [message |-> list[i][2]] >> ELSE <<>>)
         \o MessagesOf(list, i + 1, page)

\* every page followed by all of its Issues
RECURSIVE Grouped(_, _, _)
Grouped(list, pages, k) ==
  IF k > Len(pages) THEN <<>>
  ELSE << [page |-> pages[k]] >> \o MessagesOf(list, 1, pages[k])
         \o Grouped(list, pages, k + 1)

\* C23: a summary that was written lists each page that has Issues exactly
\* once, in the order of the pages' first Issues, each followed by all Issues
\* of that page in the order of their detection, also when a page URL occurs
\* more than once in pageUrls.
C23_SummaryGroupsByPage ==
  \A i \in 1..Len(errors) :
    errors[i].kind = "Summary of issues" =>
      errors[i].lines = Grouped(issues, PagesInOrder(issues, 1, <<>>), 1)

\* what the callback of page request r leaves behind when the fetch ends as o
PageResult(r, o) ==
  run(testPageCallback(
        received(enter(St, r, "callback", o.res.statusCode), o.res, o.body, o.elapsed),
        r, o.err, o.res, o.body, o.elapsed))

\* everything but the response-time Issue in what a handler leaves behind:
\* the worklist, the checks scheduled, the requests sent, the log and the
\* other Issues
OtherChecks(s) ==
  [pendingCallbacks |-> s.pendingCallbacks, checks |-> s.checks,
   requests |-> s.requests, inflight |-> s.inflight, testedLinks |-> s.testedLinks,
   log |-> s.log,
   issues |-> SelectSeq(s.issues, LAMBDA x : x[2].kind # "Page response took more than"),
   errors |-> SelectSeq(s.errors, LAMBDA x : x.kind # "Page response took more than")]

\* C24: a page fetched with 2xx has recorded exactly one response-time Issue,
\* naming maxResponseTime, if maxResponseTime is set and the elapsed time is
\* greater, and none otherwise; and whatever time a fetch in flight takes,
\* its callback schedules the same link checks, sends the same requests,
\* writes the same log lines and records the same other Issues.
C24_SlowPageCheckedAlike ==
  /\ \A id \in 1..Len(checks) : \A o \in PageEnds(id) :
       /\ Cardinality(IssuesOfKind(id, "Page response took more than")) =
            IF options.maxResponseTime # 0 /\ outcomes[o].elapsed > options.maxResponseTime
            THEN 1 ELSE 0
       /\ \A i \in IssuesOfKind(id, "Page response took more than") :
            issues[i][2].statusCode = options.maxResponseTime
  /\ \A i \in 1..Len(inflight) :
       inflight[i].type = "page" =>
         \A o \in PageOutcomes(inflight[i].page) : \A elapsed \in {50, 100, 150} :
           o.err = "" =>
             OtherChecks(PageResult(inflight[i], o))
               = OtherChecks(PageResult(inflight[i], [o EXCEPT !.elapsed = elapsed]))

\* a slow page whose links were scheduled and whose headers were reported
C24_Witness ==
  \E id \in 1..Len(checks) : \E o \in PageEnds(id) :
    /\ options.maxResponseTime = 100 /\ outcomes[o].elapsed = 150
    /\ IssuesOfKind(id, "Page response took more than") # {}
    /\ IssuesOfKind(id, "Missing Cache-Control header in response") # {}
    /\ \E c \in 1..Len(checks) : IsLinkCheck(c) /\ checks[c].by = id

\* the Cache-Control headers of the model that contain no-cache or max-age=0
MarkedUncached == {"no-cache", "public, max-age=0"}

\* the Issues the check of the cache headers may record
CachingKinds ==
  {"Missing Cache-Control header in response", "Invalid Cache-Control header in response",
   "Missing ETag header in response", "Invalid ETag header in response"}

\* C25: with checkCaching, a page fetched with 2xx has recorded exactly one
\* 'Missing Cache-Control' Issue if the response had no Cache-Control header
\* and none otherwise; exactly one 'Missing ETag' Issue if the response had
\* no ETag, unless its Cache-Control header was present and contained
\* no-cache or max-age=0, and none otherwise; so for 'Cache-Control: no-cache'
\* without ETag the check of the cache headers has recorded no Issue.
\* Without checkCaching it records none.
C25_CachingIssues ==
  \A id \in 1..Len(checks) : \A o \in PageEnds(id) :
    LET cacheControl == outcomes[o].headers.cacheControl
        etag == outcomes[o].headers.etag
    IN  /\ Cardinality(IssuesOfKind(id, "Missing Cache-Control header in response")) =
             IF options.checkCaching /\ cacheControl = "" THEN 1 ELSE 0
        /\ Cardinality(IssuesOfKind(id, "Missing ETag header in response")) =
             IF options.checkCaching /\ etag = "" /\ cacheControl \notin MarkedUncached
             THEN 1 ELSE 0
        /\ ((cacheControl = "no-cache" /\ etag = "") \/ ~options.checkCaching) =>
             \A i \in IssuesBy(id) : issues[i][2].kind \notin CachingKinds

C25_Witness ==
  /\ options.checkCaching
  /\ \E id \in 1..Len(checks) : \E o \in PageEnds(id) :
       /\ outcomes[o].headers.cacheControl = "public, max-age=0"
       /\ outcomes[o].headers.etag = ""
       /\ IssuesBy(id) = {}
       /\ cbCalls[id] = 1

\* what the link of an element of the model is relative to the URL base
RelativeTo(base, value) ==
  IF value = "#"
  THEN CASE base = "http://example.com/p1" -> "http://example.com/p1#"
         [] base = "http://example.com/r" -> "http://example.com/r#"
         [] base = "http://other.com/o" -> "http://other.com/o#"
         [] base = "file:p2" -> "file:p2#"
         [] OTHER -> NoUrl
  ELSE IF value = "#f"
  THEN CASE base = "http://example.com/p1" -> "http://example.com/p1#f"
         [] base = "http://example.com/r" -> "http://example.com/r#f"
         [] base = "file:p2" -> "file:p2#f"
         [] OTHER -> NoUrl
  ELSE value

\* the elements of a body whose link is on the host of the URL base, or all
\* of them without onlySameDomain
OnDomain(body, base) ==
  {k \in 1..Len(body) :
     options.onlySameDomain =>
       urlParse(RelativeTo(base, body[k].value)).host = urlParse(base).host}

\* C26: the link checks a page fetched with 2xx scheduled are checks of the
\* page's effective URL (res.request.href, the final URL of a redirected
\* fetch): one per element whose link, resolved against the effective URL, is
\* on the host of the effective URL or onlySameDomain is off, for exactly
\* that resolved link; and of two checks taken whose links are the same
\* without their fragment, the later one sends no request.
C26_LinksOfEffectiveUrl ==
  \A id \in 1..Len(checks) : \A o \in PageEnds(id) :
    LET href == outcomes[o].href
        body == outcomes[o].body
        mine == {c \in 1..Len(checks) : IsLinkCheck(c) /\ checks[c].by = id}
    IN  /\ Cardinality(mine) = Cardinality(OnDomain(body, href))
        /\ \A c \in mine :
             /\ checks[c].page = href
             /\ \E k \in OnDomain(body, href) : checks[c].link = RelativeTo(href, body[k].value)
        /\ \A k \in OnDomain(body, href) :
             \E c \in mine : checks[c].link = RelativeTo(href, body[k].value)
        /\ \A c1, c2 \in mine :
             (/\ c1 < c2 /\ c2 \in Range(taken)
              /\ Stripped(checks[c1].link) = Stripped(checks[c2].link)) =>
               /\ RequestsOf(c2) = {}
               /\ Stripped(checks[c2].link) \in Range(testedLinks)

\* a fetch redirected to another host under onlySameDomain: the link to the
\* listed host was not scheduled, and the relative link was resolved against
\* the final URL and requested
C26_Witness ==
  /\ options.onlySameDomain
  /\ \E id \in 1..Len(checks) : \E o \in PageEnds(id) :
       /\ checks[id].page = "http://example.com/p1"
       /\ outcomes[o].href = "http://other.com/o"
       /\ \E k \in 1..Len(outcomes[o].body) :
            outcomes[o].body[k].value = "http://example.com/p1"
       /\ \A c \in 1..Len(checks) :
            checks[c].by = id => checks[c].link = "http://other.com/o#"
       /\ \E c \in 1..Len(checks) :
            /\ checks[c].by = id /\ checks[c].page = "http://other.com/o"
            /\ RequestsOf(c) # {}

\* C27: a call whose arguments before maxResponseTime are accepted and whose
\* maxResponseTime is present but no positive number (of another type, zero
\* or negative) raises 'maxResponseTime option is invalid; it should be a
\* positive number', and no request was sent.
C27_NonPositiveRejected ==
  (/\ phase # "init"
   /\ ~RequiredInvalid(args)
   /\ ~(args.linksToIgnore.truthy /\ ~args.linksToIgnore.isArray)
   /\ args.maxResponseTime.type # "undefined"
   /\ ~IsPositiveNumber(args.maxResponseTime)) =>
     /\ phase = "failed"
     /\ raised = "maxResponseTime option is invalid; it should be a positive number"
     /\ requests = <<>>

\* C28: once a call with an empty pageUrls list was made, no request was
\* sent, nothing was written to host.log or host.error, no Issue was
\* recorded, and done was invoked exactly once, without an error and with
\* the count 0.
C28_EmptyRunSucceedsSilently ==
  (phase # "init" /\ options.pageUrls = <<>>) =>
    /\ requests = <<>> /\ inflight = <<>> /\ checks = <<>>
    /\ log = <<>> /\ errors = <<>>
    /\ issues = <<>>
    /\ Len(doneCalls) = 1
    /\ ~doneCalls[1].err
    /\ doneCalls[1].issueCount = 0
    /\ phase = "done" /\ thrown = 0

\* the call with an empty list and options.summary set has returned
C28_Witness ==
  /\ options.pageUrls = <<>> /\ options.summary /\ options.checkLinks
  /\ phase = "done"
  /\ doneCalls = <<[err |-> FALSE, issueCount |-> 0]>>

\* the first request link check id sent
FirstRequest(id) == CHOOSE q \in RequestsOf(id) : \A p \in RequestsOf(id) : q <= p

\* C29: the first request of a link check is a GET exactly when
\* options.queryHashes is set, whether its link names a hash or not, and a
\* HEAD otherwise; with queryHashes a check sends no second request, and one
\* whose GET ended outside 2xx has recorded its Issue.  So a check of a link
\* that names a hash under queryHashes never sends a HEAD, and no digest is
\* ever read at the end of a HEAD.
C29_FullModeIffQueryHashes ==
  /\ \A id \in 1..Len(checks) :
       (IsLinkCheck(id) /\ RequestsOf(id) # {}) =>
         /\ requests[FirstRequest(id)].method =
              IF options.queryHashes THEN "GET" ELSE "HEAD"
         /\ options.queryHashes =>
              /\ Cardinality(RequestsOf(id)) = 1
              /\ \A o \in FullEnds(id, 100, 199) \cup FullEnds(id, 300, 599) :
                   /\ ~InFlight(id)
                   /\ Cardinality(IssuesOfKind(id, "Bad link")
                                    \cup IssuesOfKind(id, "Redirected link")) = 1
         /\ (options.queryHashes /\ ExpectedHashes(checks[id].link) # {}) =>
              \A q \in RequestsOf(id) : requests[q].method = "GET"
  /\ \A o \in 1..Len(outcomes) :
       outcomes[o].digest # "" =>
         /\ outcomes[o].method = "GET"
         /\ options.queryHashes /\ ExpectedHashes(checks[outcomes[o].id].link) # {}

\* under queryHashes the check of a link without a hash ended its GET with
\* 404, and the check of a link with a hash read a digest
C29_Witness ==
  /\ options.queryHashes
  /\ \E id \in 1..Len(checks) :
       /\ IsLinkCheck(id) /\ ExpectedHashes(checks[id].link) = {}
       /\ RequestsOf(id) # {}
       /\ requests[FirstRequest(id)].via = "request"
       /\ FullEnds(id, 404, 404) # {}
       /\ IssuesOfKind(id, "Bad link") # {}
  /\ \E o \in 1..Len(outcomes) : outcomes[o].digest # ""

\* the events at which a probe of link check id ended outside 2xx
FailedProbes(id) ==
  {o \in OutcomesOf(id) : /\ outcomes[o].method = "HEAD" /\ outcomes[o].event = "end"
                          /\ ~(200 <= outcomes[o].statusCode /\ outcomes[o].statusCode <= 299)}

\* C30: a link check sends at most two requests.  Two requests are a HEAD
\* and then a GET of the same URL, sent because the HEAD ended with a status
\* outside 2xx; a HEAD that ended outside 2xx is followed by exactly one
\* GET, and a HEAD that ended otherwise by none.  A GET that ended outside
\* 2xx has nothing in flight and no request after it.
C30_AtMostProbeAndFull ==
  \A id \in 1..Len(checks) :
    IsLinkCheck(id) =>
      LET sent == RequestsOf(id)
          full == {q \in sent : requests[q].method = "GET"}
          probes == {q \in sent : requests[q].method = "HEAD"}
      IN  /\ Cardinality(sent) <= 2
          /\ Cardinality(probes) <= 1 /\ Cardinality(full) <= 1
          /\ \A p \in probes : \A q \in full :
               /\ p < q
               /\ requests[p].url = requests[q].url
               /\ requests[q].url = checks[id].link
          /\ probes # {} => (full # {} <=> FailedProbes(id) # {})
          /\ Cardinality(FailedProbes(id)) <= 1
          /\ \A o \in FullEnds(id, 100, 199) \cup FullEnds(id, 300, 599) :
               /\ ~InFlight(id)
               /\ \A later \in OutcomesOf(id) : later <= o

\* a check whose HEAD ended with 404 and whose GET ended with 404
C30_Witness ==
  \E id \in 1..Len(checks) :
    /\ IsLinkCheck(id)
    /\ Cardinality(RequestsOf(id)) = 2
    /\ \E o \in FailedProbes(id) : outcomes[o].statusCode = 404
    /\ FullEnds(id, 404, 404) # {}

\* seq is what longer starts with
IsPrefix(seq, longer) ==
  Len(seq) <= Len(longer) /\ SubSeq(longer, 1, Len(seq)) = seq

\* C31: at every step testedLinks keeps its entries where they are and only
\* grows at its end, it holds no entry twice, every link request the step
\* sent is for a link whose URL without the fragment is in testedLinks after
\* the step, and a step that sent the GET of a check that had sent a HEAD
\* before leaves testedLinks as it was.
C31_ClaimedBeforeDispatch ==
  [][/\ IsPrefix(testedLinks, testedLinks')
     /\ \A i, j \in 1..Len(testedLinks') : testedLinks'[i] = testedLinks'[j] => i = j
     /\ \A q \in (Len(requests) + 1)..Len(requests') :
          requests'[q].type = "link" =>
            /\ Stripped(requests'[q].url) \in Range(testedLinks')
            /\ (\E p \in 1..Len(requests) : requests[p].id = requests'[q].id) =>
                 testedLinks' = testedLinks]_vars

\* a check sent its GET after its HEAD, and testedLinks holds two links
C31_Witness ==
  /\ Len(testedLinks) = 2
  /\ \E p, q \in 1..Len(requests) :
       /\ p < q /\ requests[p].id = requests[q].id
       /\ requests[p].method = "HEAD" /\ requests[q].method = "GET"
       /\ Stripped(requests[q].url) \in Range(testedLinks)

\* C32: every step leaves the Issues recorded where they are and only adds
\* Issues at the end of the list, so the list of any state is a prefix of
\* the list of every later state and its length never decreases; and the
\* Issues stand in the order in which their lines were written to
\* host.error, the order of detection.
C32_IssuesAppendOnly ==
  [][/\ IsPrefix(issues, issues')
     /\ Len(issues') >= Len(issues)
     /\ Len(IssueLines') = Len(issues')
     /\ \A i \in 1..Len(issues') : issues'[i][2] = IssueLines'[i]]_vars

\* two Issues of different checks are recorded, the later check's last
C32_Witness ==
  /\ Len(issues) >= 2
  /\ issuedBy[1] # issuedBy[Len(issues)]
  /\ \A i, j \in 1..Len(issues) : i < j => issuedBy[i] <= issuedBy[j]
  /\ \E i \in 1..Len(errors) : errors[i] = issues[Len(issues)][2]

\* the times link check id reported on the lines that close it: its 'Link'
\* line, or its 'Bad link', 'Redirected link' or 'Link error' Issue
ReportedTimes(id) ==
  {log[i].ms : i \in LinesBy(id, "Link")}
    \cup {issues[i][2].ms : i \in IssuesOfKind(id, "Bad link")
                                    \cup IssuesOfKind(id, "Redirected link")
                                    \cup IssuesOfKind(id, "Link error")}

\* how the GET of link check id ended after its HEAD had ended outside 2xx
RetryEnds(id) ==
  {o \in OutcomesOf(id) : /\ FailedProbes(id) # {}
                          /\ outcomes[o].method = "GET"
                          /\ outcomes[o].event \in {"end", "error"}}

\* C33: the time a link check reports after its HEAD was retried as a GET is
\* the time from the dispatch of the HEAD to the end of the GET.
C33_ElapsedCoversProbeAndRetry ==
  \A id \in 1..Len(checks) :
    IsLinkCheck(id) =>
      \A o \in RetryEnds(id) :
        /\ ReportedTimes(id) # {}
        /\ \A ms \in ReportedTimes(id) :
             ms = outcomes[o].at - requests[FirstRequest(id)].at

\* check id is the check of a file: target
IsFileCheck(id) == urlParse(checks[id].link).protocol = "file:"

\* the Issues check id recorded for a transport error
TransportIssues(id) ==
  IssuesOfKind(id, "Page error") \cup IssuesOfKind(id, "Link error")

\* the Issues check id recorded for a status outside 2xx
StatusIssues(id) ==
  IssuesOfKind(id, "Bad page") \cup IssuesOfKind(id, "Bad link")
    \cup IssuesOfKind(id, "Redirected link")

\* C34: the check of a file: target (page or link) sends at most one request,
\* through requestFile, and that request ends at most once, in one of two
\* ways: with the status 200 and no headers, and then the check has logged
\* its 'Page' or 'Link' line, recorded no Issue for a transport error or a
\* status, and called back; or with an error, and then the check has
\* recorded exactly one 'Page error' or 'Link error' Issue that names
\* ENOENT, logged no 'Page' or 'Link' line, and called back.  No file: link
\* is requested a second time.
C34_FileCheckEndsOneOfTwoWays ==
  \A id \in 1..Len(checks) :
    IsFileCheck(id) =>
      /\ Cardinality(RequestsOf(id)) <= 1
      /\ \A q \in RequestsOf(id) : requests[q].via = "requestFile"
      /\ Cardinality(OutcomesOf(id)) <= 1
      /\ \A o \in OutcomesOf(id) :
           /\ cbCalls[id] = 1 /\ ~InFlight(id)
           /\ IF outcomes[o].event = "error"
              THEN /\ Cardinality(TransportIssues(id)) = 1
                   /\ \A i \in TransportIssues(id) :
                        /\ issues[i][2].detail = "ENOENT"
                        /\ issues[i][2].url = checks[id].link
                   /\ LinesBy(id, "Page") \cup LinesBy(id, "Link") = {}
                   /\ StatusIssues(id) = {}
              ELSE /\ outcomes[o].statusCode = 200
                   /\ outcomes[o].headers = NoHeaders /\ outcomes[o].location = ""
                   /\ Cardinality(LinesBy(id, "Page") \cup LinesBy(id, "Link")) = 1
                   /\ TransportIssues(id) = {} /\ StatusIssues(id) = {}

\* a file: page was read and the check of a file: link of it ended with ENOENT
C34_Witness ==
  \E page, link \in 1..Len(checks) :
    /\ IsPageCheck(page) /\ IsFileCheck(page) /\ LinesBy(page, "Page") # {}
    /\ IsLinkCheck(link) /\ IsFileCheck(link) /\ checks[link].by = page
    /\ \E i \in IssuesOfKind(link, "Link error") : issues[i][2].detail = "ENOENT"
    /\ \E o \in OutcomesOf(page) : outcomes[o].statusCode = 200

\* C35: the step in which the HEAD of a link check ends with a status outside
\* 2xx sends the GET of the same check, for the same link and page: it is the
\* one request the step sends and the one request in flight after it, and
\* the step takes nothing from the worklist, adds nothing to it, creates no
\* check and calls no completion callback.
C35_RetryDispatchedAtOnce ==
  [][\A o \in (Len(outcomes) + 1)..Len(outcomes') :
       (/\ outcomes'[o].method = "HEAD" /\ outcomes'[o].event = "end"
        /\ ~(200 <= outcomes'[o].statusCode /\ outcomes'[o].statusCode <= 299)) =>
         LET id == outcomes'[o].id
         IN  /\ Len(requests') = Len(requests) + 1
             /\ requests'[Len(requests')].id = id
             /\ requests'[Len(requests')].method = "GET"
             /\ requests'[Len(requests')].url = checks[id].link
             /\ requests'[Len(requests')].at = now'
             /\ Len(inflight') = 1
             /\ inflight'[1].id = id /\ inflight'[1].useGetRequest
             /\ inflight'[1].link = checks[id].link
             /\ inflight'[1].page = checks[id].page
             /\ pendingCallbacks' = pendingCallbacks
             /\ taken' = taken /\ checks' = checks /\ cbCalls' = cbCalls
             /\ Len(outcomes') = Len(outcomes) + 1]_vars

\* the GET of a check whose HEAD ended with 404 is in flight while another
\* link check waits on the worklist
C35_Witness ==
  \E id \in 1..Len(checks) :
    /\ FailedProbes(id) # {}
    /\ Len(inflight) = 1 /\ inflight[1].id = id /\ inflight[1].method = "GET"
    /\ Len(pendingCallbacks) >= 2
    /\ pendingCallbacks[1].type = "testLink"
    /\ cbCalls[id] = 0

\* the sum of the numbers of a sequence
RECURSIVE Total(_)
Total(seq) == IF seq = <<>> THEN 0 ELSE Head(seq) + Total(Tail(seq))

\* the worklist ends with the 'done' callback and holds it once
DoneIsLast(worklist) ==
  /\ worklist # <<>>
  /\ worklist[Len(worklist)].type = "done"
  /\ \A i \in 1..(Len(worklist) - 1) : worklist[i].type \in {"testPage", "testLink"}

\* C36: next() runs once when the run starts and once for every call of a
\* completion callback, and each time it takes an item: at every step the
\* number of items taken from the worklist (checks and the 'done' callback)
\* is the number of times next() ran, and the step that takes the 'done'
\* callback throws nothing.  While the run goes on, the worklist ends with the
\* 'done' callback and holds nothing but checks before it; once the 'done'
\* callback is taken the worklist is empty, nothing is in flight and nothing
\* is taken any more.
C36_NextNeverOnEmptyWorklist ==
  [][LET calls == (Total(cbCalls') - Total(cbCalls))
                    + (IF phase = "init" /\ phase' # "failed" THEN 1 ELSE 0)
         shifted == (Len(taken') - Len(taken))
                      + (IF phase # "done" /\ phase' = "done" THEN 1 ELSE 0)
     IN  /\ calls = shifted
         /\ IsPrefix(taken, taken')
         /\ (phase # "done" /\ phase' = "done") => thrown' = thrown
         /\ phase' = "running" => DoneIsLast(pendingCallbacks')
         /\ phase' = "done" => pendingCallbacks' = <<>> /\ inflight' = <<>>
         /\ phase = "done" => taken' = taken]_vars

\* the 'done' callback was taken after link checks had been put in front of it
C36_Witness ==
  /\ phase = "done"
  /\ pendingCallbacks = <<>>
  /\ \E k \in 1..Len(taken) : IsLinkCheck(taken[k])
  /\ Len(taken) = Len(checks)

\* the Issues of link check id that say its link failed
FailureIssues(id) ==
  IssuesOfKind(id, "Bad link") \cup IssuesOfKind(id, "Link error")
    \cup IssuesOfKind(id, "Redirected link") \cup IssuesOfKind(id, "Hash error")
    \cup IssuesOfKind(id, "Local link")

\* C37: of two link checks taken whose links are the same without their
\* fragment, the later one logs 'Visited link', sends no request and records
\* no 'Bad link', 'Link error', 'Redirected link', 'Hash error' or 'Local
\* link' Issue, however the earlier one ended; so every such Issue of a link
\* is recorded by the first check taken for it, for the page of that check.
C37_FailingLinkReportedForFirstPage ==
  /\ \A j, k \in 1..Len(taken) :
       (/\ j < k /\ IsLinkCheck(taken[j]) /\ IsLinkCheck(taken[k])
        /\ Stripped(checks[taken[j]].link) = Stripped(checks[taken[k]].link)) =>
         /\ FailureIssues(taken[k]) = {}
         /\ RequestsOf(taken[k]) = {}
         /\ Cardinality(LinesBy(taken[k], "Visited link")) = 1
  /\ \A id \in 1..Len(checks) : \A i \in FailureIssues(id) :
       /\ IsLinkCheck(id)
       /\ issues[i][1] = checks[id].page
       /\ Stripped(issues[i][2].url) = Stripped(checks[id].link)

\* a link whose check ended in a transport error occurs again on a later
\* page and is skipped there
C37_Witness ==
  \E j, k \in 1..Len(taken) :
    /\ j < k /\ IsLinkCheck(taken[j]) /\ IsLinkCheck(taken[k])
    /\ Stripped(checks[taken[j]].link) = Stripped(checks[taken[k]].link)
    /\ checks[taken[j]].by # checks[taken[k]].by
    /\ IssuesOfKind(taken[j], "Link error") # {}
    /\ LinesBy(taken[k], "Visited link") # {}
    /\ Len(issues) = 1

\* the links of the elements of body from position k on that carry pair p,
\* resolved against href, in document order
RECURSIVE LinksOfPair(_, _, _, _)
LinksOfPair(body, href, p, k) ==
  IF k > Len(body) THEN <<>>
  ELSE (IF /\ <<body[k].tag, body[k].attr>> = pairs[p]
           /\ Acceptable(RelativeTo(href, body[k].value), href)
        THEN <<RelativeTo(href, body[k].value)>> ELSE <<>>)
         \o LinksOfPair(body, href, p, k + 1)

\* the links of body pair by pair from pair p on
RECURSIVE LinksInPairOrder(_, _, _)
LinksInPairOrder(body, href, p) ==
  IF p > Len(pairs) THEN <<>>
  ELSE LinksOfPair(body, href, p, 1) \o LinksInPairOrder(body, href, p + 1)

\* the link checks page check id created, in the order of their creation
ChecksOf(id) ==
  SelectSeq([c \in 1..Len(checks) |-> c],
            LAMBDA c : IsLinkCheck(c) /\ checks[c].by = id)

\* where check c stands in taken, 0 when it was not taken
TakenAt(c) ==
  IF c \in Range(taken) THEN CHOOSE k \in 1..Len(taken) : taken[k] = c ELSE 0

\* C38: the link checks of a page fetched with 2xx are the links of its body
\* pair by pair in the order of the pairs, a/href first and video/src last,
\* and in document order within a pair; they are taken from the worklist in
\* that order, the ones not taken yet wait in that order at the front of the
\* worklist, and the log lines about links are written in that order.
C38_LinksInPairThenDocumentOrder ==
  /\ pairs[1] = <<"a", "href">> /\ pairs[Len(pairs)] = <<"video", "src">>
  /\ \A id \in 1..Len(checks) : \A o \in PageEnds(id) :
       LET mine == ChecksOf(id)
           expected == LinksInPairOrder(outcomes[o].body, outcomes[o].href, 1)
           waiting == SelectSeq(mine, LAMBDA c : c \notin Range(taken))
       IN  /\ Len(mine) = Len(expected)
           /\ \A n \in 1..Len(mine) : checks[mine[n]].link = expected[n]
           /\ \A m, n \in 1..Len(mine) :
                (m < n /\ TakenAt(mine[n]) # 0) =>
                  (TakenAt(mine[m]) # 0 /\ TakenAt(mine[m]) < TakenAt(mine[n]))
           /\ \A n \in 1..Len(waiting) :
                /\ n <= Len(pendingCallbacks)
                /\ pendingCallbacks[n].type = "testLink"
                /\ pendingCallbacks[n].id = waiting[n]
  /\ \A i, j \in 1..Len(log) :
       (/\ i < j /\ log[i].kind \in LinkKinds /\ log[j].kind \in LinkKinds
        /\ checks[loggedBy[i]].by = checks[loggedBy[j]].by) =>
         loggedBy[i] <= loggedBy[j]

\* the body of a page holds an img/src before an a/href: the check of the
\* a/href was taken first and both have logged their 'Link' line
C38_Witness ==
  \E id \in 1..Len(checks) : \E o \in PageEnds(id) :
    /\ Len(outcomes[o].body) = 2
    /\ outcomes[o].body[1].tag = "img" /\ outcomes[o].body[2].tag = "a"
    /\ Len(ChecksOf(id)) = 2
    /\ checks[ChecksOf(id)[1]].link = RelativeTo(outcomes[o].href, outcomes[o].body[2].value)
    /\ LinesBy(ChecksOf(id)[1], "Link") # {}
    /\ LinesBy(ChecksOf(id)[2], "Link") # {}

\* what link check id logged or recorded about a digest
HashVerdicts(id) == LinesBy(id, "Hash") \cup IssuesOfKind(id, "Hash error")

\* C39: a link check logs a 'Hash' line or records a 'Hash error' Issue only
\* when its request ended with a 2xx status.  Under queryHashes the check of
\* a link that names a hash whose GET ended outside 2xx has recorded one 'Bad
\* link' or 'Redirected link' Issue and nothing about a digest, and a check
\* whose request ended in a transport error has recorded its 'Link error'
\* Issue and nothing about a digest.
C39_DigestVerifiedOn2xxOnly ==
  \A id \in 1..Len(checks) :
    IsLinkCheck(id) =>
      /\ HashVerdicts(id) # {} => FullEnds(id, 200, 299) # {}
      /\ (options.queryHashes /\ ExpectedHashes(checks[id].link) # {}) =>
           /\ \A o \in FullEnds(id, 100, 199) \cup FullEnds(id, 300, 599) :
                /\ HashVerdicts(id) = {}
                /\ Cardinality(IssuesOfKind(id, "Bad link")
                                 \cup IssuesOfKind(id, "Redirected link")) = 1
                /\ Cardinality(IssuesBy(id)) = 1
           /\ \A o \in OutcomesOf(id) :
                outcomes[o].event = "error" =>
                  /\ HashVerdicts(id) = {}
                  /\ Cardinality(IssuesOfKind(id, "Link error")) = 1
                  /\ Cardinality(IssuesBy(id)) = 1

\* under queryHashes the GET of a link that names a hash ended with 404 and
\* a digest was read at its end; the GET of another such link ended in a
\* transport error
C39_Witness ==
  /\ options.queryHashes
  /\ \E id \in 1..Len(checks) :
       /\ IsLinkCheck(id) /\ ExpectedHashes(checks[id].link) # {}
       /\ \E o \in FullEnds(id, 404, 404) : outcomes[o].digest # ""
       /\ IssuesOfKind(id, "Bad link") # {}
  /\ \E id \in 1..Len(checks) :
       /\ IsLinkCheck(id) /\ ExpectedHashes(checks[id].link) # {}
       /\ IssuesOfKind(id, "Link error") # {}

\* the number of Issues the task detected in its run for target n
DetectedIn(n) ==
  Cardinality({i \in 1..Len(grunt.detected) : grunt.detected[i] = n})

\* C40: an invocation of the checker starts with no Issue and an empty
\* worklist; and every run of the Grunt task starts with no Issue and an
\* empty worklist, warns with the number of Issues detected in that run, and
\* finishes without a warning when it detected none.
C40_RunsStartEmpty ==
  /\ phase = "init" => (issues = <<>> /\ pendingCallbacks = <<>> /\ testedLinks = <<>>)
  /\ \A k \in 1..Len(grunt.starts) :
       grunt.starts[k].issues = 0 /\ grunt.starts[k].worklist = 0
  /\ \A k \in 1..Len(grunt.warnings) :
       grunt.warnings[k].issueCount = DetectedIn(grunt.warnings[k].run)
  /\ \A n \in Range(grunt.finished) :
       DetectedIn(n) = 0 => \A k \in 1..Len(grunt.warnings) : grunt.warnings[k].run # n

====
